---- MODULE Spec2Model ----
(***************************************************************************)
(* A model of the jad reinforcement-learning environment: the entity       *)
(* registry (JadRegion), the observation builder, the multi-head action    *)
(* codec and validity mask, the reward registry, the headless episode      *)
(* controller (HeadlessEnv) and the line-oriented stdio adapter (main.ts). *)
(* The simulation engine (osrs-sdk) is an external collaborator; its tick  *)
(* is modelled as a nondeterministic relation over the entity fields the   *)
(* repository reads (hitpoints, dying counter, attackDelay, attackStyle,   *)
(* aggro, prayers, potion doses).                                          *)
(***************************************************************************)
EXTENDS Integers, Sequences, FiniteSets, TLC

(***************************************************************************)
(* Bounds of the model (hitpoints are scaled down).                        *)
(***************************************************************************)
MaxJads == 2
MaxHealers == 4
MaxAdds == 4
JadMaxHp == 3
MaxLines == 6
RegistrySteps == 3
MaskSteps == 2
TrackerSteps == 6
MaxSteps == 4
MaxEnvAdds == 1
RecordedSteps == 2
AgentTicks == 3
PrayerSteps == 5

\* the placement loop, scaled: offsets reach SpawnReach tiles (5 in the
\* code), the Jad is JadSize tiles wide (5), the newer loop samples
\* SpawnExtraRows more rows (4), the older loop stops after maxAttempts (50)
SpawnReach == 1
JadSize == 1
SpawnExtraRows == 1
maxAttempts == 2

\* longest value of an environment variable
MaxEnvLen == 2

\* lines read from stdin in the runs where handlers write to the console
ConsoleLines == 4

(***************************************************************************)
(* Program constants.                                                      *)
(***************************************************************************)
SINGLE_JAD_ATTACK_SPEED == 8
MULTI_JAD_ATTACK_SPEED == 9
JAD_PROJECTILE_DELAY == 3
PROTECTION_PRAYER_SIZE == 4
OFFENSIVE_PRAYER_SIZE == 2
POTION_SIZE == 4
TARGET_NO_OP == 0
HealerTupleSize == 3

HealerMaxHp == 1
PlayerMaxHp == 2
MaxPrayer == 1
PotionDoses == 1
DeathTicks == 1

Min(a, b) == IF a < b THEN a ELSE b
Max(a, b) == IF a > b THEN a ELSE b

(***************************************************************************)
(* Configuration: parseJadConfig accepts jadCount in 1..6 and              *)
(* healersPerJad in 0..5; the model explores the accepted configurations   *)
(* up to the bounds.                                                       *)
(***************************************************************************)
Configs ==
    { c \in [jadCount : 1..MaxJads, healersPerJad : 0..MaxHealers] :
        /\ c.jadCount >= 1 /\ c.jadCount <= 6
        /\ c.healersPerJad >= 0 /\ c.healersPerJad <= 5
        /\ c.jadCount * c.healersPerJad <= MaxAdds }

\* the configurations the adapter is started with
EnvConfigs == { c \in Configs : c.jadCount * c.healersPerJad <= MaxEnvAdds }
AdapterConfigs == { c \in Configs : c.jadCount = 1 /\ c.healersPerJad = 0 }

RewardFuncNames == {"default", "sparse"}

getTargetHeadSize(config) ==
    1 + config.jadCount + config.jadCount * config.healersPerJad

getAttackSpeed(jadCount) ==
    IF jadCount = 1 THEN SINGLE_JAD_ATTACK_SPEED ELSE MULTI_JAD_ATTACK_SPEED

\* variant of getAttackOffset that counts the offsets from 0
getAttackOffset_fromZero(orderPosition, jadCount) ==
    (orderPosition * getAttackSpeed(jadCount)) \div jadCount

getAttackOffset(orderPosition, jadCount) ==
    1 + ((orderPosition * getAttackSpeed(jadCount)) \div jadCount)

(***************************************************************************)
(* Object references.  A reference is null, a Jad (by index) or a healer   *)
(* (by Jad index and healer index); reference equality is record equality. *)
(***************************************************************************)
NullRef == [null |-> TRUE, kind |-> "none", jad |-> -1, healer |-> -1]
JadRef(i) == [null |-> FALSE, kind |-> "jad", jad |-> i, healer |-> -1]
HealerRef(i, j) == [null |-> FALSE, kind |-> "healer", jad |-> i, healer |-> j]

NullHealer == [null |-> TRUE, hp |-> 0, dying |-> -1, aggro |-> "none"]
NewHealer == [null |-> FALSE, hp |-> HealerMaxHp, dying |-> -1, aggro |-> "jad"]

\* Unit.isDying(): the death countdown is running (dying is -1 while alive).
isDying(u) == u.dying > 0

(***************************************************************************)
(* JadRegion (entity registry).                                            *)
(***************************************************************************)
TupleDomain(config) == 0..(Max(HealerTupleSize, config.healersPerJad) - 1)

EmptyTuple(config) == [h \in TupleDomain(config) |-> NullHealer]

\* variant of getJad that trusts the dying flag alone
getJad_dyingOnly(region, index) ==
    IF index < 0 \/ index >= region.jadsLength THEN NullRef
    ELSE IF isDying(region.jads[index]) THEN NullRef
    ELSE JadRef(index)

getJad(region, index) ==
    IF index < 0 \/ index >= region.jadsLength THEN NullRef
    ELSE IF isDying(region.jads[index]) \/ region.jads[index].hp <= 0 THEN NullRef
    ELSE JadRef(index)

registerHealer(region, config, jadIndex, healerIndex) ==
    IF jadIndex < 0 \/ jadIndex >= config.jadCount THEN region
    ELSE IF healerIndex < 0 \/ healerIndex >= config.healersPerJad THEN region
    ELSE [region EXCEPT
            !.healers[jadIndex] =
                [has |-> TRUE,
                 tuple |-> [(IF @.has THEN @.tuple ELSE EmptyTuple(config))
                              EXCEPT ![healerIndex] = NewHealer]],
            !.healersSpawnedPerJad[jadIndex] = TRUE]

\* variant of getHealer without the check of the parent Jad
getHealer_noParentCheck(region, jadIndex, healerIndex) ==
    IF jadIndex \notin DOMAIN region.healers THEN NullRef
    ELSE IF ~region.healers[jadIndex].has THEN NullRef
    ELSE IF healerIndex < 0 \/ healerIndex >= HealerTupleSize THEN NullRef
    ELSE LET healer == region.healers[jadIndex].tuple[healerIndex] IN
         IF ~healer.null /\ (isDying(healer) \/ healer.hp <= 0) THEN NullRef
         ELSE IF healer.null THEN NullRef
         ELSE HealerRef(jadIndex, healerIndex)

getHealer(region, jadIndex, healerIndex) ==
    IF /\ jadIndex \in DOMAIN region.jads
       /\ (isDying(region.jads[jadIndex]) \/ region.jads[jadIndex].hp <= 0)
    THEN NullRef
    ELSE IF jadIndex \notin DOMAIN region.healers THEN NullRef
    ELSE IF ~region.healers[jadIndex].has THEN NullRef
    ELSE IF healerIndex < 0 \/ healerIndex >= HealerTupleSize THEN NullRef
    ELSE LET healer == region.healers[jadIndex].tuple[healerIndex] IN
         IF ~healer.null /\ (isDying(healer) \/ healer.hp <= 0) THEN NullRef
         ELSE IF healer.null THEN NullRef
         ELSE HealerRef(jadIndex, healerIndex)

HealerAggro_NOT_PRESENT == 0
HealerAggro_JAD == 1
HealerAggro_PLAYER == 2

getHealerAggro(region, jadIndex, healerIndex) ==
    IF getHealer(region, jadIndex, healerIndex).null THEN HealerAggro_NOT_PRESENT
    ELSE IF region.healers[jadIndex].tuple[healerIndex].aggro = "player"
         THEN HealerAggro_PLAYER
         ELSE HealerAggro_JAD

(***************************************************************************)
(* Player, prayers and inventory.                                          *)
(***************************************************************************)
OverheadPrayers == {"Protect from Magic", "Protect from Range", "Protect from Melee"}
PrayerNames == OverheadPrayers \cup {"Rigour"}

\* itemName.toString().toLowerCase() of the potions of the ranged loadout
LoadoutItemNames == <<"bastion potion", "super restore", "saradomin brew">>

\* String.includes on the lower-cased item names of the loadout
NameIncludes(itemName, label) ==
    CASE itemName = "bastion potion" -> label \in {"bastion", "potion"}
      [] itemName = "super restore" -> label \in {"restore", "super"}
      [] itemName = "saradomin brew" -> label \in {"saradomin brew", "brew"}
      [] OTHER -> FALSE

getRangedLoadout ==
    [k \in 1..Len(LoadoutItemNames) |->
        [itemName |-> LoadoutItemNames[k], doses |-> PotionDoses]]

NewPlayer ==
    [hp |-> PlayerMaxHp, dying |-> -1, prayer |-> MaxPrayer, prayers |-> {},
     inventory |-> getRangedLoadout, queued |-> {}, aggro |-> NullRef]

\* the if / else-if chain of countPotionDoses on one item name
DoseBucket(itemName) ==
    IF NameIncludes(itemName, "bastion") THEN "bastion"
    ELSE IF NameIncludes(itemName, "saradomin brew") THEN "saraBrew"
    ELSE IF NameIncludes(itemName, "restore") THEN "superRestore"
    ELSE "none"

RECURSIVE SumDoses(_, _, _)
SumDoses(inventory, k, bucket) ==
    IF k > Len(inventory) THEN 0
    ELSE (IF inventory[k].doses > 0 /\ DoseBucket(inventory[k].itemName) = bucket
          THEN inventory[k].doses ELSE 0) + SumDoses(inventory, k + 1, bucket)

countPotionDoses(player) ==
    [bastionDoses |-> SumDoses(player.inventory, 1, "bastion"),
     saraBrewDoses |-> SumDoses(player.inventory, 1, "saraBrew"),
     superRestoreDoses |-> SumDoses(player.inventory, 1, "superRestore")]

getActivePrayer(player) ==
    [activePrayer |->
        IF "Protect from Magic" \in player.prayers THEN 1
        ELSE IF "Protect from Range" \in player.prayers THEN 2
        ELSE IF "Protect from Melee" \in player.prayers THEN 3
        ELSE 0,
     rigourActive |-> "Rigour" \in player.prayers]

\* variant of Prayer.activate that switches every other prayer off
activatePrayer_exclusive(player, prayerName) ==
    [player EXCEPT !.prayers = {prayerName}]

\* variant of Prayer.activate that leaves the other prayers as they are
activatePrayer_additive(player, prayerName) ==
    [player EXCEPT !.prayers = @ \cup {prayerName}]

\* Prayer.activate: switching on an overhead prayer switches the others off
activatePrayer(player, prayerName) ==
    [player EXCEPT !.prayers =
        IF prayerName \in OverheadPrayers
        THEN (@ \ OverheadPrayers) \cup {prayerName}
        ELSE @ \cup {prayerName}]

togglePrayer(player, prayerName) ==
    IF prayerName \notin PrayerNames THEN player
    ELSE IF prayerName \in player.prayers
         THEN [player EXCEPT !.prayers = @ \ {prayerName}]
         ELSE IF player.prayer > 0 THEN activatePrayer(player, prayerName)
              ELSE player

\* variant of the search of drinkPotion without the test on the item name
FirstPotion_anyName(inventory, potionType) ==
    LET hits == { k \in 1..Len(inventory) : inventory[k].doses > 0 }
    IN IF hits = {} THEN 0 ELSE CHOOSE k \in hits : \A m \in hits : k <= m

\* index of the first potion with doses left whose name includes potionType
FirstPotion(inventory, potionType) ==
    LET hits == { k \in 1..Len(inventory) :
                    /\ inventory[k].doses > 0
                    /\ NameIncludes(inventory[k].itemName, potionType) }
    IN IF hits = {} THEN 0 ELSE CHOOSE k \in hits : \A m \in hits : k <= m

\* Potion.inventoryLeftClick: one dose is used, the effect is queued for the tick
drinkPotion(player, potionType) ==
    LET k == FirstPotion(player.inventory, potionType) IN
    IF k = 0 THEN player
    ELSE [player EXCEPT !.inventory[k].doses = @ - 1,
                        !.queued = @ \cup {player.inventory[k].itemName}]

attackJad(player, region, jadIndex) ==
    LET jad == getJad(region, jadIndex) IN
    IF jad.null THEN player ELSE [player EXCEPT !.aggro = jad]

\* variant of attackHealer without the test of what getHealer returned
attackHealer_unchecked(player, region, jadIndex, healerIndex) ==
    [player EXCEPT !.aggro = getHealer(region, jadIndex, healerIndex)]

attackHealer(player, region, jadIndex, healerIndex) ==
    LET healer == getHealer(region, jadIndex, healerIndex) IN
    IF healer.null THEN player ELSE [player EXCEPT !.aggro = healer]

executeProtectionPrayer(action, player) ==
    CASE action = 1 -> togglePrayer(player, "Protect from Magic")
      [] action = 2 -> togglePrayer(player, "Protect from Range")
      [] action = 3 -> togglePrayer(player, "Protect from Melee")
      [] OTHER -> player

executeOffensivePrayer(action, player) ==
    CASE action = 1 -> togglePrayer(player, "Rigour")
      [] OTHER -> player

executePotion(action, player) ==
    CASE action = 1 -> drinkPotion(player, "bastion")
      [] action = 2 -> drinkPotion(player, "restore")
      [] action = 3 -> drinkPotion(player, "saradomin brew")
      [] OTHER -> player

\* variant of executeTarget that decodes healer targets healer-major
executeTarget_healerMajor(action, player, region, config) ==
    IF action = TARGET_NO_OP THEN player
    ELSE IF action <= config.jadCount
         THEN attackJad(player, region, action - 1)
         ELSE IF config.healersPerJad = 0
              THEN player
              ELSE LET healerAction == action - config.jadCount - 1 IN
                   attackHealer(player, region,
                                healerAction % config.jadCount,
                                healerAction \div config.jadCount)

executeTarget(action, player, region, config) ==
    IF action = TARGET_NO_OP THEN player
    ELSE IF action <= config.jadCount
         THEN attackJad(player, region, action - 1)
         ELSE IF config.healersPerJad = 0
              THEN player   \* Infinity / NaN indices name no entity
              ELSE LET healerAction == action - config.jadCount - 1 IN
                   attackHealer(player, region,
                                healerAction \div config.healersPerJad,
                                healerAction % config.healersPerJad)

\* action is the tuple <<protection, offensive, potion, target>>
executeAction(action, player, region, config) ==
    LET p1 == executeProtectionPrayer(action[1], player)
        p2 == executeOffensivePrayer(action[2], p1)
        p3 == executePotion(action[3], p2)
    IN executeTarget(action[4], p3, region, config)

\* variant of the legacy executeAction whose three protection slots follow
\* the order of the protection head (magic, range, melee)
executeActionFlat_headOrder(action, player, region, config) ==
    LET numJads == config.jadCount
        numHealers == numJads * config.healersPerJad
        slot == action - 1 - numJads - numHealers
    IN IF action = 0 THEN player
       ELSE IF action - 1 < numJads THEN attackJad(player, region, action - 1)
       ELSE IF action - 1 - numJads < numHealers
            THEN attackHealer(player, region,
                              (action - 1 - numJads) \div config.healersPerJad,
                              (action - 1 - numJads) % config.healersPerJad)
       ELSE CASE slot = 0 -> togglePrayer(player, "Protect from Magic")
              [] slot = 1 -> togglePrayer(player, "Protect from Range")
              [] slot = 2 -> togglePrayer(player, "Protect from Melee")
              [] slot = 3 -> togglePrayer(player, "Rigour")
              [] slot = 4 -> drinkPotion(player, "bastion")
              [] slot = 5 -> drinkPotion(player, "restore")
              [] slot = 6 -> drinkPotion(player, "saradomin brew")
              [] OTHER -> player

\* executeAction of core/actions.ts: the flattened single-integer scheme
executeActionFlat(action, player, region, config) ==
    LET numJads == config.jadCount
        numHealers == numJads * config.healersPerJad
        slot == action - 1 - numJads - numHealers
    IN IF action = 0 THEN player
       ELSE IF action - 1 < numJads THEN attackJad(player, region, action - 1)
       ELSE IF action - 1 - numJads < numHealers
            THEN attackHealer(player, region,
                              (action - 1 - numJads) \div config.healersPerJad,
                              (action - 1 - numJads) % config.healersPerJad)
       ELSE CASE slot = 0 -> togglePrayer(player, "Protect from Melee")
              [] slot = 1 -> togglePrayer(player, "Protect from Range")
              [] slot = 2 -> togglePrayer(player, "Protect from Magic")
              [] slot = 3 -> togglePrayer(player, "Rigour")
              [] slot = 4 -> drinkPotion(player, "bastion")
              [] slot = 5 -> drinkPotion(player, "restore")
              [] slot = 6 -> drinkPotion(player, "saradomin brew")
              [] OTHER -> player

getActionSpaceSize(config) ==
    1 + config.jadCount + config.jadCount * config.healersPerJad + 7

getActionCount(config) ==
    1 + config.jadCount + config.jadCount * config.healersPerJad + 7

getActionSpaceDims(config) ==
    <<PROTECTION_PRAYER_SIZE, OFFENSIVE_PRAYER_SIZE, POTION_SIZE, getTargetHeadSize(config)>>

(***************************************************************************)
(* Observation builder.                                                    *)
(***************************************************************************)
getPlayerAggroTarget(player, region, config) ==
    LET t == player.aggro
        jadHits == { i \in 0..(config.jadCount - 1) :
                       ~getJad(region, i).null /\ t = getJad(region, i) }
        healerHits == { <<i, j>> \in (0..(config.jadCount - 1)) \X (0..(config.healersPerJad - 1)) :
                          ~getHealer(region, i, j).null /\ t = getHealer(region, i, j) }
    IN IF t.null THEN 0
       ELSE IF jadHits # {} THEN (CHOOSE i \in jadHits : \A m \in jadHits : i <= m) + 1
       ELSE IF healerHits # {}
            THEN LET h == CHOOSE h \in healerHits :
                            \A m \in healerHits :
                               h[1] < m[1] \/ (h[1] = m[1] /\ h[2] <= m[2])
                 IN config.jadCount + h[1] * config.healersPerJad + h[2] + 1
            ELSE 0

getJadAttack(jad, attackSpeed) ==
    IF jad.attackDelay = attackSpeed
    THEN CASE jad.attackStyle = "magic" -> 1
           [] jad.attackStyle = "range" -> 2
           [] OTHER -> 3
    ELSE 0

buildJadStates(region, config) ==
    [i \in 0..(config.jadCount - 1) |->
        IF ~getJad(region, i).null
        THEN [hp |-> region.jads[i].hp,
              attack |-> getJadAttack(region.jads[i], getAttackSpeed(config.jadCount)),
              alive |-> region.jads[i].dying = -1 /\ region.jads[i].hp > 0]
        ELSE [hp |-> 0, attack |-> 0, alive |-> FALSE]]

\* variant of buildHealerStates that pushes an entry only for a healer that
\* getHealer returns
buildHealerStates_presentOnly(region, config) ==
    LET n == config.jadCount * config.healersPerJad
        jadIdx(k) == k \div config.healersPerJad
        healerIdx(k) == k % config.healersPerJad
        present == { k \in 0..(n - 1) : ~getHealer(region, jadIdx(k), healerIdx(k)).null }
        nth(j) == CHOOSE k \in present : Cardinality({ m \in present : m < k }) = j
    IN [healers |->
          [j \in 0..(Cardinality(present) - 1) |->
             [hp |-> region.healers[jadIdx(nth(j))].tuple[healerIdx(nth(j))].hp,
              aggro |-> getHealerAggro(region, jadIdx(nth(j)), healerIdx(nth(j)))]],
        healersSpawned |-> present # {}]

buildHealerStates(region, config) ==
    LET n == config.jadCount * config.healersPerJad
        jadIdx(k) == k \div config.healersPerJad
        healerIdx(k) == k % config.healersPerJad
    IN [healers |->
          [k \in 0..(n - 1) |->
             IF ~getHealer(region, jadIdx(k), healerIdx(k)).null
             THEN [hp |-> region.healers[jadIdx(k)].tuple[healerIdx(k)].hp,
                   aggro |-> getHealerAggro(region, jadIdx(k), healerIdx(k))]
             ELSE [hp |-> 0, aggro |-> HealerAggro_NOT_PRESENT]],
        healersSpawned |->
          \E k \in 0..(n - 1) : ~getHealer(region, jadIdx(k), healerIdx(k)).null]

buildObservation(player, region, config, startingDoses) ==
    LET doses == countPotionDoses(player)
        hs == buildHealerStates(region, config)
    IN [player_hp |-> player.hp,
        player_prayer |-> player.prayer,
        player_aggro |-> getPlayerAggroTarget(player, region, config),
        active_prayer |-> getActivePrayer(player).activePrayer,
        rigour_active |-> getActivePrayer(player).rigourActive,
        bastion_doses |-> doses.bastionDoses,
        sara_brew_doses |-> doses.saraBrewDoses,
        super_restore_doses |-> doses.superRestoreDoses,
        jads |-> buildJadStates(region, config),
        healers |-> hs.healers,
        healers_spawned |-> hs.healersSpawned,
        starting_bastion_doses |-> startingDoses.bastion,
        starting_sara_brew_doses |-> startingDoses.saraBrew,
        starting_super_restore_doses |-> startingDoses.superRestore]

(***************************************************************************)
(* Validity mask: one boolean array per head, indexed from 0.              *)
(***************************************************************************)
\* variant of buildValidActionMask with the restore and brew entries swapped
buildValidActionMask_swapped(region, config, observation) ==
    LET numJads == config.jadCount
        healersPerJad == config.healersPerJad
        targetHeadSize == getTargetHeadSize(config)
        potionMask == [k \in 0..(POTION_SIZE - 1) |->
                         CASE k = 0 -> TRUE
                           [] k = 1 -> observation.bastion_doses > 0
                           [] k = 2 -> observation.sara_brew_doses > 0
                           [] OTHER -> observation.super_restore_doses > 0]
        targetMask == [t \in 0..(targetHeadSize - 1) |->
                         IF t = 0 THEN TRUE
                         ELSE IF t <= numJads THEN ~getJad(region, t - 1).null
                         ELSE ~getHealer(region, (t - 1 - numJads) \div healersPerJad,
                                                 (t - 1 - numJads) % healersPerJad).null]
    IN <<[k \in 0..(PROTECTION_PRAYER_SIZE - 1) |-> TRUE],
         [k \in 0..(OFFENSIVE_PRAYER_SIZE - 1) |-> TRUE],
         potionMask,
         targetMask>>

buildValidActionMask(region, config, observation) ==
    LET numJads == config.jadCount
        healersPerJad == config.healersPerJad
        targetHeadSize == getTargetHeadSize(config)
        potionMask == [k \in 0..(POTION_SIZE - 1) |->
                         CASE k = 0 -> TRUE
                           [] k = 1 -> observation.bastion_doses > 0
                           [] k = 2 -> observation.super_restore_doses > 0
                           [] OTHER -> observation.sara_brew_doses > 0]
        targetMask == [t \in 0..(targetHeadSize - 1) |->
                         IF t = 0 THEN TRUE
                         ELSE IF t <= numJads THEN ~getJad(region, t - 1).null
                         ELSE ~getHealer(region, (t - 1 - numJads) \div healersPerJad,
                                                 (t - 1 - numJads) % healersPerJad).null]
    IN <<[k \in 0..(PROTECTION_PRAYER_SIZE - 1) |-> TRUE],
         [k \in 0..(OFFENSIVE_PRAYER_SIZE - 1) |-> TRUE],
         potionMask,
         targetMask>>

(***************************************************************************)
(* Termination and rewards.  Rewards are kept in tenths.                   *)
(***************************************************************************)
ONGOING == "ongoing"
PLAYER_DIED == "player_died"
JAD_KILLED == "jad_killed"

\* variant of checkTermination that trusts the dying flag alone
checkTermination_dyingOnly(player, region, config) ==
    IF player.dying > 0 \/ player.hp <= 0 THEN PLAYER_DIED
    ELSE IF \E i \in 0..(config.jadCount - 1) : region.jads[i].dying = -1
         THEN ONGOING
         ELSE JAD_KILLED

checkTermination(player, region, config) ==
    IF player.dying > 0 \/ player.hp <= 0 THEN PLAYER_DIED
    ELSE IF \E i \in 0..(config.jadCount - 1) :
               /\ ~getJad(region, i).null
               /\ region.jads[i].hp > 0
               /\ region.jads[i].dying = -1
         THEN ONGOING
         ELSE JAD_KILLED

\* the terminal part of the 'default' reward function
defaultTerminalReward(termination, episodeLength) ==
    CASE termination = JAD_KILLED -> 1000 - episodeLength
      [] termination = PLAYER_DIED -> -2000
      [] OTHER -> 0

sparseReward(termination) ==
    CASE termination = JAD_KILLED -> 10
      [] termination = PLAYER_DIED -> -10
      [] OTHER -> 0

\* the TerminationState of part_006 has a fourth member
TRUNCATED == "truncated"

\* the 'sparse' function registered in part_006
sparseRewardLegacy(termination) ==
    CASE termination = JAD_KILLED -> 10
      [] termination \in {PLAYER_DIED, TRUNCATED} -> -10
      [] OTHER -> 0

REWARD_FUNCTIONS == {"default", "sparse", "multijad"}

\* the keys of the Map REWARD_FUNCTIONS of each module once its register
\* calls have run
RewardRegistry(module) ==
    IF module = "core/reward/reward-functions.ts"
    THEN {"sparse", "jad1", "jad2", "jad3"}
    ELSE REWARD_FUNCTIONS

\* variant of listRewardFunctions that lists the first registered name only
listRewardFunctions_firstOnly(module) ==
    IF module = "core/reward/reward-functions.ts" THEN {"sparse"} ELSE {"default"}

\* Array.from(REWARD_FUNCTIONS.keys())
listRewardFunctions(module) == RewardRegistry(module)

\* prevObs of the first computeReward call of an episode
NullObservation == <<>>

HEALER_TAG == 50

\* variant of healerTagReward that pays for every healer on the player
healerTagReward_whilePlayer(obs, prevObs) ==
    HEALER_TAG * Cardinality({ i \in DOMAIN obs.healers :
                                  obs.healers[i].aggro = HealerAggro_PLAYER })

\* healerTagReward: 5.0 for each healer whose aggro was JAD in the previous
\* observation and is PLAYER in this one
healerTagReward(obs, prevObs) ==
    HEALER_TAG * Cardinality({ i \in DOMAIN obs.healers :
                                  /\ prevObs.healers[i].aggro = HealerAggro_JAD
                                  /\ obs.healers[i].aggro = HealerAggro_PLAYER })

\* variant of the loop body of jadKillReward without the test on the
\* previous observation
jadKillRewardAt_whileDown(obs, prevObs, killReward, i) ==
    IF obs.jads[i].hp <= 0 THEN killReward ELSE 0

\* the loop body of jadKillReward for the Jad of index i
jadKillRewardAt(obs, prevObs, killReward, i) ==
    IF prevObs.jads[i].hp > 0 /\ obs.jads[i].hp <= 0 THEN killReward ELSE 0

\* jadKillReward: the loop from index i on
RECURSIVE jadKillReward(_, _, _, _)
jadKillReward(obs, prevObs, killReward, i) ==
    IF i >= Cardinality(DOMAIN obs.jads) THEN 0
    ELSE jadKillRewardAt(obs, prevObs, killReward, i)
         + jadKillReward(obs, prevObs, killReward, i + 1)

\* computeReward: thrown is TRUE for an unregistered name; terminal is the
\* part of the returned reward that the termination state contributes, tag
\* the part that healerTagReward contributes
computeReward(obs, prevObs, termination, episodeLength, rewardFunc) ==
    IF rewardFunc \notin REWARD_FUNCTIONS
    THEN [thrown |-> TRUE, terminal |-> 0, tag |-> 0]
    ELSE [thrown |-> FALSE,
          tag |-> IF rewardFunc = "sparse" \/ prevObs = NullObservation THEN 0
                  ELSE healerTagReward(obs, prevObs),
          terminal |-> CASE rewardFunc = "default" ->
                              defaultTerminalReward(termination, episodeLength)
                         [] rewardFunc = "sparse" -> sparseReward(termination)
                         [] OTHER ->
                              (CASE termination = JAD_KILLED -> 500
                                 [] termination = PLAYER_DIED -> -1000
                                 [] OTHER -> 0)]

(***************************************************************************)
(* Program state.                                                          *)
(***************************************************************************)
VARIABLES
    config,          \* JadConfig parsed at startup
    envConfig,       \* EnvConfig (rewardFunc) parsed at startup
    region,          \* JadRegion: _jads, _healers, _healersSpawnedPerJad
    player,          \* Player of the current region
    proj,            \* delayed Jad attacks registered with the engine, per Jad
    startingDoses,   \* HeadlessEnv.startingDoses
    episodeLength,   \* HeadlessEnv.episodeLength
    nIn,             \* number of lines read from stdin so far
    outbox,          \* lines written to stdout, oldest first
    running,         \* the process has not exited
    lastResp,        \* the StepResult / error object of the last line written
    lastLine,        \* what the last line read from stdin parsed to
    attackStates,    \* JadAttackState[] of the attack tracker
    visible,         \* per Jad: the attack reported and for how many ticks in a row
    spawn,           \* the healer placement loop of Jad.damageTaken
    environ,         \* process.env as main.ts reads it, <<>> once it was read
    rewardCall,      \* the last direct call of computeReward, <<>> if none
    stderr,          \* console lines the last handled request wrote to stderr
    shuffle,         \* the attack order being shuffled by initialiseRegion
    agent            \* the browser AgentController and the messages it sent

vars == <<config, envConfig, region, player, proj, startingDoses, episodeLength,
          nIn, outbox, running, lastResp, lastLine, attackStates, visible, spawn,
          environ, rewardCall, stderr, shuffle, agent>>

Styles == {"magic", "range", "stab"}
NoProjectile == [ticks |-> 0, style |-> "magic"]

NewJad(cooldown) ==
    [hp |-> JadMaxHp, dying |-> -1, attackDelay |-> cooldown,
     attackStyle |-> "magic", hasProccedHealers |-> FALSE]

\* the results shuffleArray can produce on [0, 1, ..., n-1]
AttackOrders(n) ==
    { f \in [0..(n - 1) -> 0..(n - 1)] : \A a, b \in 0..(n - 1) : f[a] = f[b] => a = b }

\* new JadRegion(cfg) followed by initialiseRegion() with the given shuffle
initialiseRegion(cfg, attackOrder) ==
    [jadsLength |-> cfg.jadCount,
     jads |-> [i \in 0..(cfg.jadCount - 1) |->
                 NewJad(getAttackOffset(attackOrder[i], cfg.jadCount))],
     healers |-> [i \in 0..(cfg.jadCount - 1) |->
                    [has |-> FALSE, tuple |-> EmptyTuple(cfg)]],
     healersSpawnedPerJad |-> [i \in 0..(cfg.jadCount - 1) |-> FALSE]]

captureStartingDoses(p) ==
    [bastion |-> countPotionDoses(p).bastionDoses,
     saraBrew |-> countPotionDoses(p).saraBrewDoses,
     superRestore |-> countPotionDoses(p).superRestoreDoses]

(***************************************************************************)
(* The engine tick (World.tickWorld(1)) as the repository relies on it.    *)
(***************************************************************************)
EngineAlive(u) == u.hp > 0 /\ u.dying = -1

RECURSIVE RegisterHealersFrom(_, _, _, _)
RegisterHealersFrom(rg, cfg, jadIndex, i) ==
    IF i >= cfg.healersPerJad THEN rg
    ELSE RegisterHealersFrom(registerHealer(rg, cfg, jadIndex, i), cfg, jadIndex, i + 1)

\* variant of Jad.damageTaken without the hasProccedHealers flag check
damageTaken_everyTime(rg, cfg, jadIndex) ==
    IF 2 * rg.jads[jadIndex].hp >= JadMaxHp THEN rg
    ELSE RegisterHealersFrom([rg EXCEPT !.jads[jadIndex].hasProccedHealers = TRUE],
                             cfg, jadIndex, 0)

\* Jad.damageTaken: spawn and register the healers once, below half health
damageTaken(rg, cfg, jadIndex) ==
    IF rg.jads[jadIndex].hasProccedHealers THEN rg
    ELSE IF 2 * rg.jads[jadIndex].hp >= JadMaxHp THEN rg
    ELSE RegisterHealersFrom([rg EXCEPT !.jads[jadIndex].hasProccedHealers = TRUE],
                             cfg, jadIndex, 0)

JadIdx(cfg) == 0..(cfg.jadCount - 1)

TargetEngineAlive(rg, t) ==
    IF t.null THEN FALSE
    ELSE IF t.kind = "jad" THEN EngineAlive(rg.jads[t.jad])
    ELSE /\ rg.healers[t.jad].has
         /\ ~rg.healers[t.jad].tuple[t.healer].null
         /\ EngineAlive(rg.healers[t.jad].tuple[t.healer])

HealersOn(rg, cfg, i, who) ==
    { j \in DOMAIN rg.healers[i].tuple :
        /\ rg.healers[i].has
        /\ ~rg.healers[i].tuple[j].null
        /\ EngineAlive(rg.healers[i].tuple[j])
        /\ rg.healers[i].tuple[j].aggro = who }

\* the Jads whose attack countdown expires in this tick
Launching(rg, p, cfg) ==
    { i \in JadIdx(cfg) :
        EngineAlive(rg.jads[i]) /\ EngineAlive(p) /\ rg.jads[i].attackDelay - 1 <= 0 }

\* styles of the hits that reach the player in this tick
LandingStyles(rg, p, pr, cfg, style) ==
    { pr[i].style : i \in { k \in JadIdx(cfg) : pr[k].ticks = 1 } }
      \cup (IF Launching(rg, p, cfg) # {} /\ style = "stab" THEN {"stab"} ELSE {})
      \cup (IF \E i \in JadIdx(cfg) : HealersOn(rg, cfg, i, "player") # {}
            THEN {"stab"} ELSE {})

ProtectsFrom(style) ==
    CASE style = "magic" -> "Protect from Magic"
      [] style = "range" -> "Protect from Range"
      [] OTHER -> "Protect from Melee"

\* death bookkeeping of one unit: hp0 is its health when the tick began
DeathStep(u, hp0, dieNow) ==
    IF u.dying > 0 THEN [u EXCEPT !.dying = @ - 1]
    ELSE IF u.dying = -1 /\ u.hp <= 0
         THEN IF hp0 <= 0 \/ dieNow THEN [u EXCEPT !.dying = DeathTicks] ELSE u
         ELSE u

TickChoices(rg, p, pr, cfg) ==
  { c \in
    [dmgT : IF EngineAlive(p) /\ TargetEngineAlive(rg, p.aggro)
            THEN IF p.aggro.kind = "jad" THEN 0..JadMaxHp ELSE -1..HealerMaxHp
            ELSE {-1},
     heal : IF \E i \in JadIdx(cfg) : HealersOn(rg, cfg, i, "jad") # {}
            THEN 0..1 ELSE {0},
     style : IF Launching(rg, p, cfg) # {} THEN Styles ELSE {"magic"},
     dmgP : IF EngineAlive(p) /\ (\E s \in Styles : LandingStyles(rg, p, pr, cfg, s) # {})
            THEN 0..PlayerMaxHp ELSE {0},
     dieNow : BOOLEAN,
     drain : IF p.prayers # {} THEN BOOLEAN ELSE {FALSE}] :
    \* the delay between a fatal hit and the death flag only matters after a hit
    ~c.dieNow => (c.dmgT > 0 \/ c.dmgP > 0) }

tickWorld(rg, p, pr, cfg, ch) ==
    LET t == p.aggro
        hits == ch.dmgT >= 0 /\ EngineAlive(p) /\ TargetEngineAlive(rg, t)
        \* the player's attack lands on its target
        rgA == IF ~hits THEN rg
               ELSE IF t.kind = "jad"
                    THEN damageTaken([rg EXCEPT !.jads[t.jad].hp = Max(0, @ - ch.dmgT)],
                                     cfg, t.jad)
                    ELSE [rg EXCEPT !.healers[t.jad].tuple[t.healer].hp = Max(0, @ - ch.dmgT),
                                    !.healers[t.jad].tuple[t.healer].aggro = "player"]
        \* healers heal their living Jad
        rgB == [rgA EXCEPT !.jads =
                  [i \in JadIdx(cfg) |->
                     IF EngineAlive(rgA.jads[i]) /\ HealersOn(rg, cfg, i, "jad") # {}
                     THEN [rgA.jads[i] EXCEPT !.hp = Min(JadMaxHp, @ + ch.heal)]
                     ELSE rgA.jads[i]]]
        \* attack countdowns and launches
        L == Launching(rg, p, cfg)
        speed == getAttackSpeed(cfg.jadCount)
        rgC == [rgB EXCEPT !.jads =
                  [i \in JadIdx(cfg) |->
                     IF i \in L
                     THEN [rgB.jads[i] EXCEPT !.attackDelay = speed, !.attackStyle = ch.style]
                     ELSE IF EngineAlive(rg.jads[i])
                          THEN [rgB.jads[i] EXCEPT !.attackDelay = Max(0, @ - 1)]
                          ELSE rgB.jads[i]]]
        prC == [i \in JadIdx(cfg) |->
                  IF i \in L /\ ch.style # "stab"
                  THEN [ticks |-> JAD_PROJECTILE_DELAY, style |-> ch.style]
                  ELSE IF pr[i].ticks > 0 THEN [pr[i] EXCEPT !.ticks = @ - 1]
                  ELSE pr[i]]
        \* potion effects queued by the action, then the hits on the player
        landing == LandingStyles(rg, p, pr, cfg, ch.style)
        unblocked == \E s \in landing : ProtectsFrom(s) \notin p.prayers
        hpBrew == IF "saradomin brew" \in p.queued /\ EngineAlive(p)
                  THEN Min(PlayerMaxHp, p.hp + 1) ELSE p.hp
        hpD == IF EngineAlive(p) /\ unblocked THEN Max(0, hpBrew - ch.dmgP) ELSE hpBrew
        prayerPts == IF "super restore" \in p.queued THEN MaxPrayer
                     ELSE IF ch.drain /\ p.prayers # {} THEN Max(0, p.prayer - 1)
                     ELSE p.prayer
        pD == [p EXCEPT !.hp = hpD, !.queued = {}, !.prayer = prayerPts,
                        !.prayers = IF prayerPts = 0 THEN {} ELSE @]
        \* deaths: Jads, then their healers (which die with their Jad), the player
        jadsE == [i \in JadIdx(cfg) |-> DeathStep(rgC.jads[i], rg.jads[i].hp, ch.dieNow)]
        healersE ==
            [i \in JadIdx(cfg) |->
               [rgC.healers[i] EXCEPT !.tuple =
                  [j \in DOMAIN rgC.healers[i].tuple |->
                     LET h == rgC.healers[i].tuple[j]
                         h0 == rg.healers[i].tuple[j]
                     IN IF h.null \/ h.dying = 0 THEN h
                        ELSE IF isDying(jadsE[i]) THEN [h EXCEPT !.dying = DeathTicks]
                        ELSE DeathStep(h, IF h0.null THEN h.hp ELSE h0.hp, ch.dieNow)]]]
    IN [region |-> [rgC EXCEPT !.jads = jadsE, !.healers = healersE],
        player |-> DeathStep(pD, p.hp, ch.dieNow),
        proj |-> prC]

(***************************************************************************)
(* The attack tracker (JadAttackState per Jad).                            *)
(***************************************************************************)
initializeAttackStates(rg, cfg) ==
    [i \in JadIdx(cfg) |->
       [attack |-> 0, ticksRemaining |-> 0,
        prevAttackDelay |-> IF getJad(rg, i) = NullRef THEN 0
                            ELSE rg.jads[i].attackDelay]]

\* variant of the loop body that asks for a previous countdown of 0
updateJadAttackState_fromZero(jad, state) ==
    LET currentDelay == jad.attackDelay
        launched == state.prevAttackDelay <= 0 /\ currentDelay > 1
        style == jad.attackStyle
        s1 == IF ~launched THEN state
              ELSE IF style = "magic" THEN [state EXCEPT !.attack = 1, !.ticksRemaining = 4]
              ELSE IF style = "range" THEN [state EXCEPT !.attack = 2, !.ticksRemaining = 4]
              ELSE [state EXCEPT !.attack = 3, !.ticksRemaining = 2]
        s2 == IF s1.ticksRemaining > 0
              THEN [s1 EXCEPT !.ticksRemaining = @ - 1,
                              !.attack = IF s1.ticksRemaining - 1 = 0 THEN 0 ELSE @]
              ELSE s1
    IN [s2 EXCEPT !.prevAttackDelay = currentDelay]

\* the body of the loop of updateJadAttackTracking for one Jad
updateJadAttackState(jad, state) ==
    LET currentDelay == jad.attackDelay
        launched == state.prevAttackDelay <= 1 /\ currentDelay > 1
        style == jad.attackStyle
        s1 == IF ~launched THEN state
              ELSE IF style = "magic" THEN [state EXCEPT !.attack = 1, !.ticksRemaining = 4]
              ELSE IF style = "range" THEN [state EXCEPT !.attack = 2, !.ticksRemaining = 4]
              ELSE [state EXCEPT !.attack = 3, !.ticksRemaining = 2]
        s2 == IF s1.ticksRemaining > 0
              THEN [s1 EXCEPT !.ticksRemaining = @ - 1,
                              !.attack = IF s1.ticksRemaining - 1 = 0 THEN 0 ELSE @]
              ELSE s1
    IN [s2 EXCEPT !.prevAttackDelay = currentDelay]

updateJadAttackTracking(rg, cfg, states) ==
    [i \in JadIdx(cfg) |->
       IF getJad(rg, i) = NullRef THEN states[i]
       ELSE updateJadAttackState(rg.jads[i], states[i])]

\* the attack field buildJadStates reports for Jad i from the tracker
trackedAttack(rg, states, i) ==
    IF getJad(rg, i) # NullRef THEN states[i].attack ELSE 0

NotVisible == [attack |-> 0, ticks |-> 0]

\* buildJadStates of the tracker-based observation builder
buildJadStatesTracked(rg, cfg, states) ==
    [i \in 0..(cfg.jadCount - 1) |->
        IF ~getJad(rg, i).null
        THEN [hp |-> rg.jads[i].hp,
              attack |-> states[i].attack,
              alive |-> rg.jads[i].dying = -1 /\ rg.jads[i].hp > 0]
        ELSE [hp |-> 0, attack |-> 0, alive |-> FALSE]]

\* the fields of the tracker-based observation the prayer reward reads
buildObservationTracked(p, rg, cfg, states) ==
    [active_prayer |-> getActivePrayer(p).activePrayer,
     jads |-> buildJadStatesTracked(rg, cfg, states)]

(***************************************************************************)
(* The prayer component of the reward (tenths).                            *)
(***************************************************************************)
PRAYER_CORRECT == 25
PRAYER_WRONG == 0 - 75

\* variant of prayerLandingReward that pays on every tick an attack was
\* visible in the previous observation
RECURSIVE prayerLandingReward_whileVisible(_, _, _, _, _)
prayerLandingReward_whileVisible(obs, prevObs, correct, wrong, i) ==
    IF i >= Cardinality(DOMAIN obs.jads) THEN 0
    ELSE (IF prevObs.jads[i].attack # 0
          THEN IF obs.active_prayer = prevObs.jads[i].attack THEN correct ELSE wrong
          ELSE 0)
         + prayerLandingReward_whileVisible(obs, prevObs, correct, wrong, i + 1)

\* prayerLandingReward: the loop from index i on
RECURSIVE prayerLandingReward(_, _, _, _, _)
prayerLandingReward(obs, prevObs, correct, wrong, i) ==
    IF i >= Cardinality(DOMAIN obs.jads) THEN 0
    ELSE (IF prevObs.jads[i].attack # 0 /\ obs.jads[i].attack = 0
          THEN IF obs.active_prayer = prevObs.jads[i].attack THEN correct ELSE wrong
          ELSE 0)
         + prayerLandingReward(obs, prevObs, correct, wrong, i + 1)

(***************************************************************************)
(* HeadlessEnv.                                                            *)
(***************************************************************************)
NoMask == <<>>
NoObservation == <<>>

\* variant of reset that revives the Jads of the existing region in place
EnvReset_inPlace(attackOrder) ==
    LET rg == [region EXCEPT !.jads = initialiseRegion(config, attackOrder).jads]
        p == NewPlayer
        sd == captureStartingDoses(p)
        observation == buildObservation(p, rg, config, sd)
    IN [region |-> rg, player |-> p,
        proj |-> [i \in JadIdx(config) |-> NoProjectile],
        startingDoses |-> sd, episodeLength |-> 0, thrown |-> FALSE,
        result |-> [kind |-> "result", command |-> "reset",
                    observation |-> observation, reward |-> 0,
                    terminated |-> FALSE, termination |-> ONGOING,
                    valid_action_mask |-> buildValidActionMask(rg, config, observation)]]

\* HeadlessEnv.reset(): a new world and region, then the first StepResult
EnvReset(attackOrder) ==
    LET rg == initialiseRegion(config, attackOrder)
        p == NewPlayer
        sd == captureStartingDoses(p)
        observation == buildObservation(p, rg, config, sd)
    IN [region |-> rg, player |-> p,
        proj |-> [i \in JadIdx(config) |-> NoProjectile],
        startingDoses |-> sd, episodeLength |-> 0, thrown |-> FALSE,
        result |-> [kind |-> "result", command |-> "reset",
                    observation |-> observation, reward |-> 0,
                    terminated |-> FALSE, termination |-> ONGOING,
                    valid_action_mask |-> buildValidActionMask(rg, config, observation)]]

\* variant of step that captures the starting doses again after the tick
stepAfterTick_recapture(prevObservation, w) ==
    LET len == episodeLength + 1
        doses == captureStartingDoses(w.player)
        observation == buildObservation(w.player, w.region, config, doses)
        termination == checkTermination(w.player, w.region, config)
        reward == computeReward(observation, prevObservation, termination, len,
                                envConfig.rewardFunc)
    IN [region |-> w.region, player |-> w.player, proj |-> w.proj,
        startingDoses |-> doses, episodeLength |-> len,
        thrown |-> reward.thrown,
        result |-> [kind |-> "result", command |-> "step",
                    observation |-> observation, reward |-> reward.terminal,
                    tag_reward |-> reward.tag,
                    terminated |-> termination # ONGOING, termination |-> termination,
                    valid_action_mask |->
                        buildValidActionMask(w.region, config, observation)]]

\* HeadlessEnv.step(action), from the tick on: w is the world after
\* tickWorld(1)
stepAfterTick(prevObservation, w) ==
    LET len == episodeLength + 1
        observation == buildObservation(w.player, w.region, config, startingDoses)
        termination == checkTermination(w.player, w.region, config)
        reward == computeReward(observation, prevObservation, termination, len,
                                envConfig.rewardFunc)
    IN [region |-> w.region, player |-> w.player, proj |-> w.proj,
        startingDoses |-> startingDoses, episodeLength |-> len,
        thrown |-> reward.thrown,
        result |-> [kind |-> "result", command |-> "step",
                    observation |-> observation, reward |-> reward.terminal,
                    tag_reward |-> reward.tag,
                    terminated |-> termination # ONGOING, termination |-> termination,
                    valid_action_mask |->
                        buildValidActionMask(w.region, config, observation)]]

\* variant of step that ticks the world first and applies the action after
EnvStep_actionAfterTick(action, ch) ==
    stepAfterTick(buildObservation(player, region, config, startingDoses),
                  [tickWorld(region, player, proj, config, ch) EXCEPT
                     !.player = executeAction(action, @, region, config)])

\* HeadlessEnv.step(action) for an action array
EnvStep(action, ch) ==
    stepAfterTick(buildObservation(player, region, config, startingDoses),
                  tickWorld(region, executeAction(action, player, region, config),
                            proj, config, ch))

\* the state the environment is left in when a call throws before changing it
EnvUnchanged ==
    [region |-> region, player |-> player, proj |-> proj,
     startingDoses |-> startingDoses, episodeLength |-> episodeLength]

(***************************************************************************)
(* The stdio adapter (main.ts).  A line is described by what JSON.parse    *)
(* makes of it: json is "invalid" (parse throws), "null" (the value null,  *)
(* whose .command access throws) or "value"; command and action are the    *)
(* fields of the parsed value ("undefined" when missing).                  *)
(***************************************************************************)
NoAction == <<0, 0, 0, 0>>

\* the MultiDiscrete action space: every 4-tuple within getActionSpaceDims
AllHeads(cfg) ==
    (0..(PROTECTION_PRAYER_SIZE - 1)) \X (0..(OFFENSIVE_PRAYER_SIZE - 1))
        \X (0..(POTION_SIZE - 1)) \X (0..getTargetHeadSize(cfg))

ActionTuples(cfg) ==
    { a \in (0..(PROTECTION_PRAYER_SIZE - 1)) \X (0..(OFFENSIVE_PRAYER_SIZE - 1))
              \X (0..(POTION_SIZE - 1)) \X (0..getTargetHeadSize(cfg)) :
        Cardinality({ k \in 1..4 : a[k] # 0 }) <= 1 }

\* the actions given to HeadlessEnv.step directly: potions and targets
EnvActions(cfg) == { a \in ActionTuples(cfg) : a[1] = 0 /\ a[2] = 0 }

\* the actions that only choose a target
TargetActions(cfg) == { a \in ActionTuples(cfg) : a[1] = 0 /\ a[2] = 0 /\ a[3] = 0 }

Line(json, command, actionKind, action) ==
    [json |-> json, command |-> command, actionKind |-> actionKind, action |-> action]

ErrorResp ==
    [kind |-> "error", command |-> "none", observation |-> NoObservation,
     reward |-> 0, terminated |-> FALSE,
     termination |-> ONGOING, valid_action_mask |-> NoMask]

\* variant of the catch block that ends the process
OnError_exit ==
    [env |-> EnvUnchanged, out |-> <<ErrorResp>>, exit |-> TRUE]

\* the catch block: the error is written and the handler returns
OnError ==
    [env |-> EnvUnchanged, out |-> <<ErrorResp>>, exit |-> FALSE]

\* variant of the default branch without its return: output(result) runs too
OnUnknownCommand_fallThrough ==
    [env |-> EnvUnchanged, out |-> <<ErrorResp, ErrorResp>>, exit |-> FALSE]

\* the default branch of the switch: the error is written and the handler
\* returns before the output(result) that follows the switch
OnUnknownCommand ==
    [env |-> EnvUnchanged, out |-> <<ErrorResp>>, exit |-> FALSE]

\* case 'reset': r is what env.reset() leaves and returns
OnReset(r) ==
    [env |-> r, out |-> <<r.result>>, exit |-> FALSE]

\* case 'step': r is what env.step(msg.action) leaves and returns, or throws
OnStep(r) ==
    IF r.thrown
    THEN [env |-> r, out |-> OnError.out, exit |-> OnError.exit]
    ELSE [env |-> r, out |-> <<r.result>>, exit |-> FALSE]

\* one run of the rl.on('line') handler: the environment it leaves, the
\* objects it passes to output() in order, and whether the process exited
OnLine(line, attackOrder, ch) ==
    IF line.json = "invalid" \/ line.json = "null"
    THEN OnError
    ELSE CASE line.command = "reset" -> OnReset(EnvReset(attackOrder))
           [] line.command = "step" ->
                IF line.actionKind = "undefined"
                THEN \* action[0] of undefined throws in executeAction
                     OnError
                ELSE OnStep(EnvStep(IF line.actionKind = "tuple" THEN line.action
                                    ELSE NoAction,  \* a number: every head reads undefined
                                    ch))
           [] line.command = "close" ->
                [env |-> EnvUnchanged, out |-> <<>>, exit |-> TRUE]
           [] OTHER -> OnUnknownCommand

\* where a console method writes when nothing has replaced it (Node.js)
consoleSink_native(method) ==
    IF method \in {"warn", "error"} THEN "stderr" ELSE "stdout"

\* where a console method writes once bootstrap.ts has run: log, info, warn
\* and debug are replaced by writeToStderr, error is left as it is
consoleSink(method) ==
    IF method \in {"log", "info", "warn", "debug"} THEN "stderr"
    ELSE consoleSink_native(method)

\* the console calls the code under reset() or step() may make while one
\* request is handled: none, or one call of one of the methods
Diagnostics ==
    {<<>>} \cup { <<m>> : m \in {"log", "info", "warn", "debug", "error"} }

\* process.stdout.write of each object passed to output(), tagged with the
\* number of the request being handled; a console line on stdout is tagged
\* with the negated number
RECURSIVE WriteAll(_, _, _)
WriteAll(box, out, req) ==
    IF out = <<>> THEN box
    ELSE WriteAll(Append(box, req), Tail(out), req)

Handle(line, attackOrder, ch, d) ==
    /\ running
    /\ nIn < MaxLines
    /\ \E h \in {OnLine(line, attackOrder, ch)} :
        /\ nIn' = nIn + 1
        /\ region' = h.env.region
        /\ player' = h.env.player
        /\ proj' = h.env.proj
        /\ startingDoses' = h.env.startingDoses
        /\ episodeLength' = h.env.episodeLength
        /\ outbox' = WriteAll(WriteAll(outbox,
                                       SelectSeq(d, LAMBDA m : consoleSink(m) = "stdout"),
                                       0 - (nIn + 1)),
                              h.out, nIn + 1)
        /\ stderr' = SelectSeq(d, LAMBDA m : consoleSink(m) = "stderr")
        /\ lastResp' = IF h.out = <<>> THEN lastResp ELSE h.out[Len(h.out)]
        /\ running' = ~h.exit
    /\ lastLine' = [json |-> line.json, command |-> line.command,
                    actionKind |-> line.actionKind, console |-> d]
    /\ UNCHANGED <<agent, shuffle, rewardCall, environ, spawn, config, envConfig, attackStates, visible>>

IdleChoice == [dmgT |-> -1, heal |-> 0, style |-> "magic", dmgP |-> 0,
               dieNow |-> TRUE, drain |-> FALSE]
IdleOrder == [i \in JadIdx(config) |-> i]

RecvReset(console) ==
    \E attackOrder \in AttackOrders(config.jadCount) :
      \E d \in console :
        Handle(Line("value", "reset", "undefined", NoAction), attackOrder, IdleChoice, d)

RecvStep(console) ==
    \E a \in TargetActions(config) :
      \E p1 \in {executeAction(a, player, region, config)} :
        \E ch \in TickChoices(region, p1, proj, config) :
          \E d \in console :
            Handle(Line("value", "step", "tuple", a), IdleOrder, ch, d)

RecvStepLegacyInt(console) ==
    \E ch \in TickChoices(region, player, proj, config) :
      \E d \in console :
        Handle(Line("value", "step", "int", NoAction), IdleOrder, ch, d)

RecvMalformed ==
    \E line \in { Line("invalid", "undefined", "undefined", NoAction),
                  Line("null", "undefined", "undefined", NoAction),
                  Line("value", "undefined", "undefined", NoAction),
                  Line("value", "bogus", "undefined", NoAction),
                  Line("value", "step", "undefined", NoAction) } :
        Handle(line, IdleOrder, IdleChoice, <<>>)

RecvClose ==
    Handle(Line("value", "close", "undefined", NoAction), IdleOrder, IdleChoice, <<>>)

\* SIGINT / SIGTERM
Signal ==
    /\ running
    /\ running' = FALSE
    /\ UNCHANGED <<agent, shuffle, stderr, rewardCall, environ, spawn, config, envConfig, region, player, proj, startingDoses,
                   episodeLength, nIn, outbox, lastResp, lastLine, attackStates,
                   visible>>

\* no Jad is placing healers
NoSpawn == [phase |-> "idle"]

\* HeadlessEnv has no attack tracker
NoTracker == attackStates = <<>> /\ visible = <<>> /\ spawn = NoSpawn /\ agent = <<>>

InitWith(cfgs, rewardFuncs) ==
    /\ environ = <<>>
    /\ rewardCall = <<>>
    /\ stderr = <<>>
    /\ shuffle = <<>>
    /\ config \in cfgs
    /\ envConfig \in [rewardFunc : rewardFuncs]
    /\ \E attackOrder \in AttackOrders(config.jadCount) :
          region = initialiseRegion(config, attackOrder)
    /\ player = NewPlayer
    /\ proj = [i \in JadIdx(config) |-> NoProjectile]
    /\ startingDoses = captureStartingDoses(NewPlayer)
    /\ episodeLength = 0
    /\ nIn = 0
    /\ outbox = <<>>
    /\ running = TRUE
    /\ lastResp = [kind |-> "none", command |-> "none",
                   observation |-> NoObservation, reward |-> 0,
                   terminated |-> FALSE, termination |-> ONGOING,
                   valid_action_mask |-> NoMask]
    /\ lastLine = [json |-> "none", command |-> "none", actionKind |-> "none",
                   console |-> <<>>]

\* the process as started by main.ts
Init == InitWith(AdapterConfigs, RewardFuncNames) /\ NoTracker

Next ==
    \/ RecvReset({<<>>})
    \/ RecvStep({<<>>})
    \/ RecvStepLegacyInt({<<>>})
    \/ RecvMalformed
    \/ RecvClose
    \/ Signal

Spec == Init /\ [][Next]_vars

\* the adapter started with REWARD_FUNC set to a name that the registry of
\* core/rewards.ts has ('sparse') or has not ('jad1')
InitRewardName == InitWith(AdapterConfigs, {"sparse", "jad1"}) /\ NoTracker

SpecRewardName == InitRewardName /\ [][Next]_vars

(***************************************************************************)
(* HeadlessEnv driven directly through reset() and step().                 *)
(***************************************************************************)
Apply(r) ==
    /\ region' = r.region
    /\ player' = r.player
    /\ proj' = r.proj
    /\ startingDoses' = r.startingDoses
    /\ episodeLength' = r.episodeLength
    /\ lastResp' = r.result
    /\ UNCHANGED <<agent, shuffle, stderr, rewardCall, environ, spawn, config, envConfig, nIn, outbox, running, lastLine, attackStates,
                   visible>>

Reset ==
    \E attackOrder \in AttackOrders(config.jadCount) :
      \E r \in {EnvReset(attackOrder)} : Apply(r)

Step ==
    /\ episodeLength < MaxSteps
    /\ \E a \in TargetActions(config) :
        \E p1 \in {executeAction(a, player, region, config)} :
          \E ch \in TickChoices(region, p1, proj, config) :
            \E r \in {EnvStep(a, ch)} : Apply(r)

InitEnv == InitWith(EnvConfigs, RewardFuncNames) /\ NoTracker

NextEnv == Reset \/ Step

SpecEnv == InitEnv /\ [][NextEnv]_vars

(***************************************************************************)
(* The registry (JadRegion) under every configuration up to the bounds,    *)
(* driven by steps that only choose a target.                              *)
(***************************************************************************)
StepTarget ==
    /\ episodeLength < RegistrySteps
    /\ \E a \in TargetActions(config) :
        \E p1 \in {executeAction(a, player, region, config)} :
          \E ch \in TickChoices(region, p1, proj, config) :
            \E r \in {EnvStep(a, ch)} : Apply(r)

InitRegistry == InitWith(Configs, {"default"}) /\ NoTracker

NextRegistry == Reset \/ StepTarget

SpecRegistry == InitRegistry /\ [][NextRegistry]_vars

(***************************************************************************)
(* The environment with the attack tracker: each step executes the action, *)
(* updates the tracker, ticks the world and reports the tracked attack.    *)
(***************************************************************************)
TrackerConfigs == { c \in Configs : c.healersPerJad = 0 }

TrackerReset ==
    \E attackOrder \in AttackOrders(config.jadCount) :
      \E r \in {EnvReset(attackOrder)} :
        /\ region' = r.region
        /\ player' = r.player
        /\ proj' = r.proj
        /\ episodeLength' = 0
        /\ attackStates' = initializeAttackStates(r.region, config)
        /\ visible' = [i \in JadIdx(config) |-> NotVisible]
        /\ UNCHANGED <<agent, shuffle, stderr, rewardCall, environ, spawn, config, envConfig, startingDoses, nIn, outbox, running,
                       lastResp, lastLine>>

TrackerStep ==
    /\ episodeLength < TrackerSteps
    /\ \E a \in TargetActions(config) :
        \E p1 \in {executeAction(a, player, region, config)} :
          \E ch \in TickChoices(region, p1, proj, config) :
            \E st \in {updateJadAttackTracking(region, config, attackStates)} :
              \E w \in {tickWorld(region, p1, proj, config, ch)} :
                /\ region' = w.region
                /\ player' = w.player
                /\ proj' = w.proj
                /\ episodeLength' = episodeLength + 1
                /\ attackStates' = st
                /\ visible' =
                     [i \in JadIdx(config) |->
                        LET reported == trackedAttack(w.region, st, i)
                        IN IF reported = 0 THEN NotVisible
                           ELSE [attack |-> reported,
                                 ticks |-> IF visible[i].attack = reported
                                           THEN visible[i].ticks + 1 ELSE 1]]
                /\ UNCHANGED <<agent, shuffle, stderr, rewardCall, environ, spawn, config, envConfig, startingDoses, nIn, outbox,
                               running, lastResp, lastLine>>

InitTracker ==
    /\ InitWith(TrackerConfigs, {"default"})
    /\ attackStates = initializeAttackStates(region, config)
    /\ visible = [i \in JadIdx(config) |-> NotVisible]
    /\ spawn = NoSpawn
    /\ agent = <<>>

NextTracker == TrackerReset \/ TrackerStep

SpecTracker == InitTracker /\ [][NextTracker]_vars

(***************************************************************************)
(* The tracker-based environment with the prayer heads in use; each step   *)
(* returns the observation and the prayer reward earned between the        *)
(* previous observation and this one.                                      *)
(***************************************************************************)
PrayerActions(cfg) == { a \in ActionTuples(cfg) : a[2] = 0 /\ a[3] = 0 /\ a[4] <= 1 }

PrayerReset ==
    \E attackOrder \in AttackOrders(config.jadCount) :
      \E r \in {EnvReset(attackOrder)} :
        \E st \in {initializeAttackStates(r.region, config)} :
          /\ region' = r.region
          /\ player' = r.player
          /\ proj' = r.proj
          /\ episodeLength' = 0
          /\ attackStates' = st
          /\ visible' = [i \in JadIdx(config) |-> NotVisible]
          /\ lastResp' = [kind |-> "result", command |-> "reset",
                          observation |->
                              buildObservationTracked(r.player, r.region, config, st),
                          prayer_reward |-> 0]
          /\ UNCHANGED <<agent, shuffle, stderr, rewardCall, environ, spawn, config, envConfig, startingDoses, nIn, outbox, running,
                         lastLine>>

PrayerStep ==
    /\ episodeLength < PrayerSteps
    /\ \E a \in PrayerActions(config) :
        \E p1 \in {executeAction(a, player, region, config)} :
          \E ch \in TickChoices(region, p1, proj, config) :
            \E st \in {updateJadAttackTracking(region, config, attackStates)} :
              \E w \in {tickWorld(region, p1, proj, config, ch)} :
                \E obs \in {buildObservationTracked(w.player, w.region, config, st)} :
                  /\ region' = w.region
                  /\ player' = w.player
                  /\ proj' = w.proj
                  /\ episodeLength' = episodeLength + 1
                  /\ attackStates' = st
                  /\ visible' =
                       [i \in JadIdx(config) |->
                          IF obs.jads[i].attack = 0 THEN NotVisible
                          ELSE [attack |-> obs.jads[i].attack,
                                ticks |-> IF visible[i].attack = obs.jads[i].attack
                                          THEN visible[i].ticks + 1 ELSE 1]]
                  /\ lastResp' =
                       [kind |-> "result", command |-> "step", observation |-> obs,
                        prayer_reward |->
                            prayerLandingReward(
                                obs,
                                buildObservationTracked(player, region, config,
                                                        attackStates),
                                PRAYER_CORRECT, PRAYER_WRONG, 0)]
                  /\ UNCHANGED <<agent, shuffle, stderr, rewardCall, environ, spawn, config, envConfig, startingDoses, nIn, outbox,
                                 running, lastLine>>

NextPrayer == PrayerReset \/ PrayerStep

SpecPrayer == InitTracker /\ [][NextPrayer]_vars

(***************************************************************************)
(* The same environment with getObservation() called between the steps:    *)
(* buildObservation with the tracker states, then buildValidActionMask.    *)
(***************************************************************************)
\* variant in which building the observation also advances the tracker
Observe_tracking ==
    \E st \in {updateJadAttackTracking(region, config, attackStates)} :
      \E obs \in {[buildObservation(player, region, config, startingDoses) EXCEPT
                     !.jads = buildJadStatesTracked(region, config, st)]} :
        /\ attackStates' = st
        /\ lastResp' = [kind |-> "result", command |-> "observe", observation |-> obs,
                        valid_action_mask |->
                            buildValidActionMask(region, config, obs)]
        /\ UNCHANGED <<agent, shuffle, stderr, rewardCall, environ, spawn, config, envConfig,
                       region, player, proj, startingDoses, episodeLength, nIn,
                       outbox, running, lastLine, visible>>

Observe ==
    \E obs \in {[buildObservation(player, region, config, startingDoses) EXCEPT
                   !.jads = buildJadStatesTracked(region, config, attackStates)]} :
      /\ lastResp' = [kind |-> "result", command |-> "observe", observation |-> obs,
                      valid_action_mask |-> buildValidActionMask(region, config, obs)]
      /\ UNCHANGED <<agent, shuffle, stderr, rewardCall, environ, spawn, config, envConfig,
                     region, player, proj, startingDoses, episodeLength, nIn, outbox,
                     running, lastLine, attackStates, visible>>

SpecObserve == InitTracker /\ [][PrayerReset \/ PrayerStep \/ Observe]_vars

(***************************************************************************)
(* HeadlessEnv under every configuration up to the bounds, for the first   *)
(* steps of an episode with potion and target actions.                     *)
(***************************************************************************)
StepMask ==
    /\ episodeLength < MaskSteps
    /\ \E a \in EnvActions(config) :
        \E p1 \in {executeAction(a, player, region, config)} :
          \E ch \in TickChoices(region, p1, proj, config) :
            \E r \in {EnvStep(a, ch)} : Apply(r)

InitMask == InitWith(Configs, {"default"}) /\ NoTracker

NextMask == Reset \/ StepMask

SpecMask == InitMask /\ [][NextMask]_vars

(***************************************************************************)
(* HeadlessEnv driven with every action of the action space; lastLine      *)
(* holds the action array the last step() was called with.                 *)
(***************************************************************************)
StepRecorded ==
    /\ episodeLength < RecordedSteps
    /\ \E a \in ActionTuples(config) :
        \E p1 \in {executeAction(a, player, region, config)} :
          \E ch \in TickChoices(region, p1, proj, config) :
            \E r \in {EnvStep(a, ch)} :
              /\ region' = r.region
              /\ player' = r.player
              /\ proj' = r.proj
              /\ startingDoses' = r.startingDoses
              /\ episodeLength' = r.episodeLength
              /\ lastResp' = r.result
              /\ lastLine' = Line("value", "step", "tuple", a)
              /\ UNCHANGED <<agent, shuffle, stderr, rewardCall, environ, spawn, config, envConfig, nIn, outbox, running, attackStates,
                             visible>>

InitStep == InitWith(EnvConfigs, RewardFuncNames) /\ NoTracker

NextStep == Reset \/ StepRecorded

SpecStep == InitStep /\ [][NextStep]_vars

(***************************************************************************)
(* HeadlessEnv with one Jad and one healer, stepped like SpecStep; the      *)
(* states it reaches are the players executeAction is applied to.           *)
(***************************************************************************)
InitHeads == InitWith({[jadCount |-> 1, healersPerJad |-> 1]}, {"default"}) /\ NoTracker

SpecHeads == InitHeads /\ [][NextStep]_vars

(***************************************************************************)
(* The healer placement loop of Jad.damageTaken, one sampled offset per     *)
(* step, in its two versions.  Positions are offsets from the Jad's         *)
(* location; mobs holds the tiles on which Collision.collidesWithAnyMobs    *)
(* answers true.                                                            *)
(***************************************************************************)
SpawnVersions == {"core/jad.ts", "jad.ts"}

\* the offsets <<xOff, yOff>> the two Random.get() calls can produce
SpawnOffsets(version) ==
    { <<fx - SpawnReach, fy - SpawnReach - JadSize>> :
        fx \in 0..(2 * SpawnReach),
        fy \in 0..(2 * SpawnReach
                    + IF version = "core/jad.ts" THEN SpawnExtraRows ELSE 0) }

\* one iteration of the do-while loop, and the code after the loop when the
\* loop condition is false
SpawnSample ==
    /\ spawn.phase = "sampling"
    /\ spawn.attempts <= maxAttempts
    /\ \E off \in SpawnOffsets(spawn.version) :
         LET attempts == spawn.attempts + 1
             collides == off \in spawn.mobs
             again == IF spawn.version = "core/jad.ts" THEN collides
                      ELSE attempts < maxAttempts /\ collides
         IN spawn' =
              IF again THEN [spawn EXCEPT !.attempts = attempts]
              ELSE [spawn EXCEPT
                      !.attempts = 0,
                      !.mobs = @ \cup {off},
                      !.onMob = @ \/ collides,
                      !.i = @ + 1,
                      !.phase = IF spawn.i + 1 < config.healersPerJad
                                THEN "sampling" ELSE "done"]
    /\ UNCHANGED <<agent, shuffle, stderr, rewardCall, environ, config, envConfig, region, player, proj, startingDoses,
                   episodeLength, nIn, outbox, running, lastResp, lastLine,
                   attackStates, visible>>

\* a Jad that has just fallen below half health, among any mobs
InitSpawn ==
    /\ InitWith({ c \in Configs : c.jadCount = 1 /\ c.healersPerJad \in 1..2 },
                {"default"})
    /\ attackStates = <<>> /\ visible = <<>> /\ agent = <<>>
    /\ \E version \in SpawnVersions : \E mobs \in SUBSET SpawnOffsets(version) :
          spawn = [phase |-> "sampling", version |-> version, mobs |-> mobs,
                   i |-> 0, attempts |-> 0, onMob |-> FALSE]

SpecSpawn == InitSpawn /\ [][SpawnSample]_vars

(***************************************************************************)
(* Startup (main.ts): the configuration is parsed from the process          *)
(* environment and handed to the HeadlessEnv constructor.  A variable of    *)
(* the environment is a sequence of characters, <<>> when unset or empty.   *)
(***************************************************************************)
EnvChars == {"0", "1", "2", "3", "4", "5", "6", "7", "8", "9", "-", ".", "a"}

EnvStrings == UNION { [1..n -> EnvChars] : n \in 0..MaxEnvLen }

\* a JavaScript number: NaN, or an integer
NaN == [nan |-> TRUE, value |-> 0]

\* parseInt(s, 10): an optional sign, then the longest prefix of digits
parseInt(s) ==
    LET Digit(c) == CASE c = "0" -> 0 [] c = "1" -> 1 [] c = "2" -> 2 [] c = "3" -> 3
                      [] c = "4" -> 4 [] c = "5" -> 5 [] c = "6" -> 6 [] c = "7" -> 7
                      [] c = "8" -> 8 [] c = "9" -> 9 [] OTHER -> -1
        neg == Len(s) > 0 /\ s[1] = "-"
        from == IF neg THEN 2 ELSE 1
        \* the digits end before position stop
        stop == IF \E k \in from..Len(s) : Digit(s[k]) < 0
                THEN CHOOSE k \in from..Len(s) :
                        Digit(s[k]) < 0 /\ \A j \in from..(k - 1) : Digit(s[j]) >= 0
                ELSE Len(s) + 1
        RECURSIVE Value(_)
        Value(k) == IF k < from THEN 0 ELSE 10 * Value(k - 1) + Digit(s[k])
    IN IF stop = from THEN NaN
       ELSE [nan |-> FALSE,
             value |-> IF neg THEN 0 - Value(stop - 1) ELSE Value(stop - 1)]

\* parseJadConfig: the variables default to '1' and '3'; a comparison with
\* NaN is false
parseJadConfig(env) ==
    LET jadCount == parseInt(IF env.JAD_COUNT = <<>> THEN <<"1">> ELSE env.JAD_COUNT)
        healersPerJad == parseInt(IF env.HEALERS_PER_JAD = <<>> THEN <<"3">>
                                  ELSE env.HEALERS_PER_JAD)
    IN IF ~jadCount.nan /\ (jadCount.value < 1 \/ jadCount.value > 6)
       THEN [thrown |-> TRUE]
       ELSE IF ~healersPerJad.nan /\ (healersPerJad.value < 0 \/ healersPerJad.value > 5)
            THEN [thrown |-> TRUE]
            ELSE [thrown |-> FALSE, jadCount |-> jadCount,
                  healersPerJad |-> healersPerJad]

\* no HeadlessEnv was constructed
NoConfig == [jadCount |-> NaN, healersPerJad |-> NaN]

\* main.ts up to the construction of HeadlessEnv, which stores the
\* configuration it is given; an exception ends the process
Startup ==
    /\ environ # <<>>
    /\ LET parsed == parseJadConfig(environ) IN
         IF parsed.thrown
         THEN config' = NoConfig /\ running' = FALSE
         ELSE /\ config' = [jadCount |-> parsed.jadCount,
                            healersPerJad |-> parsed.healersPerJad]
              /\ running' = TRUE
    /\ environ' = <<>>
    /\ UNCHANGED <<agent, shuffle, stderr, rewardCall, envConfig, region, player, proj, startingDoses, episodeLength,
                   nIn, outbox, lastResp, lastLine, attackStates, visible, spawn>>

InitStartup ==
    /\ environ \in [JAD_COUNT : EnvStrings, HEALERS_PER_JAD : EnvStrings]
    /\ config = NoConfig
    /\ envConfig = [rewardFunc |-> "default"]
    /\ region = <<>> /\ player = <<>> /\ proj = <<>> /\ startingDoses = <<>>
    /\ episodeLength = 0 /\ nIn = 0 /\ outbox = <<>> /\ running = FALSE
    /\ lastResp = <<>> /\ lastLine = <<>>
    /\ rewardCall = <<>>
    /\ stderr = <<>>
    /\ shuffle = <<>>
    /\ NoTracker

SpecStartup == InitStartup /\ [][Startup]_vars

(***************************************************************************)
(* computeReward called directly, in each module that keeps a registry of   *)
(* reward functions.  The value is followed for the sparse function only.   *)
(***************************************************************************)
RewardCall ==
    \E module \in {"core/rewards.ts", "core/reward/reward-functions.ts", "part_006"} :
    \E rewardFunc \in REWARD_FUNCTIONS \cup {"jad1", "jad2", "jad3", "", "Sparse"} :
    \E termination \in {ONGOING, PLAYER_DIED, JAD_KILLED}
                          \cup (IF module = "part_006" THEN {TRUNCATED} ELSE {}) :
    \E len \in 0..MaxSteps :
    \E prevObs \in {NoObservation,
                     buildObservation(player, region, config, startingDoses)} :
        LET fn == IF rewardFunc \in RewardRegistry(module)
                  THEN rewardFunc ELSE "undefined"
            call == [module |-> module, rewardFunc |-> rewardFunc,
                     termination |-> termination, episodeLength |-> len,
                     prevObs |-> prevObs,
                     available |-> listRewardFunctions(module)]
        IN /\ rewardCall' =
                IF fn = "undefined"
                THEN call @@ [thrown |-> TRUE]
                ELSE call @@ [thrown |-> FALSE,
                              reward |-> IF fn # "sparse" THEN 0
                                         ELSE IF module = "part_006"
                                              THEN sparseRewardLegacy(termination)
                                              ELSE sparseReward(termination)]
           /\ UNCHANGED <<agent, shuffle, stderr, environ, spawn, config, envConfig, region, player, proj,
                          startingDoses, episodeLength, nIn, outbox, running,
                          lastResp, lastLine, attackStates, visible>>

InitReward == InitWith({[jadCount |-> 1, healersPerJad |-> 0]}, {"sparse"}) /\ NoTracker

SpecReward == InitReward /\ [][RewardCall]_vars

(***************************************************************************)
(* The attack order of JadRegion.initialiseRegion for every jadCount       *)
(* parseJadConfig accepts: shuffleArray, one iteration of its loop per     *)
(* step, then the loop that gives every Jad its initial cooldown.          *)
(***************************************************************************)
ShuffleStep ==
    /\ shuffle.phase = "shuffling"
    /\ IF shuffle.i > 0
       THEN \* j = Math.floor(Math.random() * (i + 1)); swap array[i], array[j]
            \E j \in 0..shuffle.i :
              shuffle' = [shuffle EXCEPT
                            !.array = [@ EXCEPT ![shuffle.i] = shuffle.array[j],
                                                ![j] = shuffle.array[shuffle.i]],
                            !.i = @ - 1]
       ELSE shuffle' = [shuffle EXCEPT
                          !.phase = "done",
                          !.cooldown =
                              [k \in 0..(shuffle.jadCount - 1) |->
                                  getAttackOffset(shuffle.array[k], shuffle.jadCount)]]
    /\ UNCHANGED <<agent, stderr, rewardCall, environ, spawn, config, envConfig, region,
                   player, proj, startingDoses, episodeLength, nIn, outbox, running,
                   lastResp, lastLine, attackStates, visible>>

\* the region is under construction: only the configuration exists
InitShuffle ==
    /\ config \in [jadCount : 1..6, healersPerJad : {0}]
    /\ shuffle = [phase |-> "shuffling", jadCount |-> config.jadCount,
                  array |-> [k \in 0..(config.jadCount - 1) |-> k],
                  i |-> config.jadCount - 1, cooldown |-> <<>>]
    /\ envConfig = [rewardFunc |-> "default"]
    /\ region = <<>> /\ player = <<>> /\ proj = <<>> /\ startingDoses = <<>>
    /\ episodeLength = 0 /\ nIn = 0 /\ outbox = <<>> /\ running = FALSE
    /\ lastResp = <<>> /\ lastLine = <<>>
    /\ environ = <<>> /\ rewardCall = <<>> /\ stderr = <<>>
    /\ NoTracker

SpecShuffle == InitShuffle /\ [][ShuffleStep]_vars

(***************************************************************************)
(* The stdio adapter with one Jad and no healers, where the code handling  *)
(* a reset or a step may write to the console.                             *)
(***************************************************************************)
NextConsole ==
    \/ nIn < ConsoleLines /\ RecvReset(Diagnostics)
    \/ nIn < ConsoleLines /\ RecvStep(Diagnostics)
    \/ nIn < ConsoleLines /\ RecvStepLegacyInt(Diagnostics)
    \/ nIn < ConsoleLines /\ RecvMalformed
    \/ nIn < ConsoleLines /\ RecvClose
    \/ Signal

SpecConsole == InitReward /\ [][NextConsole]_vars

(***************************************************************************)
(* The browser AgentController.  The page connects once, before the game    *)
(* loop starts; every game tick runs the world and then tick(); an action   *)
(* message of the server is applied when it arrives.  agent.sent lists the  *)
(* types of the messages written to the socket, agent.ticks counts the      *)
(* game ticks.                                                              *)
(***************************************************************************)
\* variant of checkTermination that reports the result without keeping it
agentCheckTermination_notKept(ag, p, rg, cfg) ==
    IF ag.terminated THEN [agent |-> ag, result |-> ag.terminationResult]
    ELSE IF p.dying > 0 \/ p.hp <= 0
         THEN [agent |-> ag, result |-> PLAYER_DIED]
    ELSE IF \A i \in JadIdx(cfg) :
               ~(/\ ~getJad(rg, i).null
                 /\ rg.jads[i].hp > 0
                 /\ rg.jads[i].dying = -1)
         THEN [agent |-> ag, result |-> JAD_KILLED]
    ELSE [agent |-> ag, result |-> "null"]

\* AgentController.checkTermination: the controller after the call and the
\* value returned
agentCheckTermination(ag, p, rg, cfg) ==
    IF ag.terminated THEN [agent |-> ag, result |-> ag.terminationResult]
    ELSE IF p.dying > 0 \/ p.hp <= 0
         THEN [agent |-> [ag EXCEPT !.terminated = TRUE,
                                    !.terminationResult = PLAYER_DIED],
               result |-> PLAYER_DIED]
    ELSE IF \A i \in JadIdx(cfg) :
               ~(/\ ~getJad(rg, i).null
                 /\ rg.jads[i].hp > 0
                 /\ rg.jads[i].dying = -1)
         THEN [agent |-> [ag EXCEPT !.terminated = TRUE,
                                    !.terminationResult = JAD_KILLED],
               result |-> JAD_KILLED]
    ELSE [agent |-> ag, result |-> "null"]

\* checkStart: connect() resolves (resetEpisode, sendReset) or is rejected,
\* and the game loop starts either way
AgentStart ==
    /\ ~agent.started
    /\ \E ok \in BOOLEAN :
          agent' = [agent EXCEPT !.started = TRUE, !.connected = ok,
                                 !.terminated = FALSE, !.terminationResult = "null",
                                 !.sent = IF ok THEN <<"reset">> ELSE <<>>]
    /\ UNCHANGED <<shuffle, stderr, rewardCall, environ, spawn, config, envConfig,
                   region, player, proj, startingDoses, episodeLength, nIn, outbox,
                   running, lastResp, lastLine, attackStates, visible>>

\* ws.onclose
AgentClose ==
    /\ agent.connected
    /\ agent' = [agent EXCEPT !.connected = FALSE]
    /\ UNCHANGED <<shuffle, stderr, rewardCall, environ, spawn, config, envConfig,
                   region, player, proj, startingDoses, episodeLength, nIn, outbox,
                   running, lastResp, lastLine, attackStates, visible>>

\* ws.onAction: an action message of the server is executed
AgentAction ==
    /\ agent.started /\ agent.connected
    /\ agent.ticks < AgentTicks
    /\ \E a \in 0..(getActionSpaceSize(config) - 1) :
          player' = executeActionFlat(a, player, region, config)
    /\ UNCHANGED <<agent, shuffle, stderr, rewardCall, environ, spawn, config, envConfig,
                   region, proj, startingDoses, episodeLength, nIn, outbox,
                   running, lastResp, lastLine, attackStates, visible>>

\* one game tick: the world ticks first, then AgentController.tick()
AgentTick ==
    /\ agent.started
    /\ agent.ticks < AgentTicks
    /\ \E ch \in TickChoices(region, player, proj, config) :
        \E w \in {tickWorld(region, player, proj, config, ch)} :
          /\ region' = w.region
          /\ player' = w.player
          /\ proj' = w.proj
          /\ \E ag \in {[agent EXCEPT !.ticks = @ + 1]} :
                IF ~ag.connected \/ ag.terminated
                THEN agent' = ag
                ELSE \E c \in {agentCheckTermination(ag, w.player, w.region, config)} :
                       agent' = [c.agent EXCEPT !.sent =
                                    Append(@, IF c.result # "null" THEN "terminated"
                                              ELSE "observation")]
    /\ UNCHANGED <<shuffle, stderr, rewardCall, environ, spawn, config, envConfig,
                   startingDoses, episodeLength, nIn, outbox,
                   running, lastResp, lastLine, attackStates, visible>>

InitAgent ==
    /\ InitWith(AdapterConfigs, {"default"})
    /\ attackStates = <<>> /\ visible = <<>> /\ spawn = NoSpawn
    /\ agent = [started |-> FALSE, connected |-> FALSE, terminated |-> FALSE,
                terminationResult |-> "null", sent |-> <<>>, ticks |-> 0]

SpecAgent ==
    InitAgent /\ [][AgentStart \/ AgentClose \/ AgentAction \/ AgentTick]_vars

(***************************************************************************)
(* Claims.                                                                 *)
(***************************************************************************)
PlayerAlive == ~(player.dying > 0 \/ player.hp <= 0)

\* a boss is defeated: its health is <= 0 or its dying flag is set
Defeated(jad) == jad.hp <= 0 \/ jad.dying # -1

\* a step of the running episode (not a reset)
SameEpisodeStep == episodeLength' = episodeLength + 1

\* the potion kind each entry k > 0 of the potion head drinks
PotionDosesOf(k) ==
    CASE k = 1 -> countPotionDoses(player).bastionDoses
      [] k = 2 -> countPotionDoses(player).superRestoreDoses
      [] OTHER -> countPotionDoses(player).saraBrewDoses

\* C1: in every reset/step response, potion-head entry k > 0 is true iff
\* the dose count of that potion kind is > 0, and target-head entry t > 0
\* is true iff getJad / getHealer reports the entity encoded by t present.
C1_MaskSound ==
    lastResp.kind = "result" =>
        LET m == lastResp.valid_action_mask
            n == config.jadCount
            h == config.healersPerJad
        IN /\ DOMAIN m[3] = 0..(POTION_SIZE - 1)
           /\ DOMAIN m[4] = 0..(getTargetHeadSize(config) - 1)
           /\ \A k \in 1..(POTION_SIZE - 1) : m[3][k] <=> PotionDosesOf(k) > 0
           /\ \A i \in 0..(n - 1) : m[4][1 + i] <=> getJad(region, i) # NullRef
           /\ \A i \in 0..(n - 1) : \A j \in 0..(h - 1) :
                 m[4][1 + n + i * h + j] <=> getHealer(region, i, j) # NullRef

\* a step response for two Jads with two healers each that masks out an
\* emptied potion and the unspawned healers of the first Jad while it
\* offers a healer of the second Jad
C1_Witness ==
    /\ lastResp.kind = "result" /\ lastResp.command = "step"
    /\ config.jadCount = 2 /\ config.healersPerJad = 2
    /\ \E k \in 1..(POTION_SIZE - 1) : ~lastResp.valid_action_mask[3][k]
    /\ ~lastResp.valid_action_mask[4][3]
    /\ lastResp.valid_action_mask[4][6]

\* C3: once a termination check of an episode has returned PLAYER_DIED or
\* JAD_KILLED, every later check of the same episode (a further step
\* request) returns the same terminal state.
C3_StickyTermination ==
    [][(SameEpisodeStep /\ lastResp.terminated /\ lastResp'.kind = "result")
         => lastResp'.termination = lastResp.termination]_vars

\* C4: within one episode the terminal reward is part of the reward of at
\* most one step: a step after the episode has terminated adds none.
C4_TerminalRewardOnce ==
    [][(SameEpisodeStep /\ lastResp.terminated /\ lastResp'.kind = "result")
         => lastResp'.reward = 0]_vars

\* C5: a termination check made while the player is alive returns
\* JAD_KILLED exactly when every Jad in [0, jadCount) has health <= 0 or
\* its dying flag set, and ONGOING otherwise.
C5_AllBossesDefeated ==
    (lastResp.kind = "result" /\ lastResp.command = "step" /\ PlayerAlive) =>
        lastResp.termination =
            (IF \A i \in 0..(config.jadCount - 1) : Defeated(region.jads[i])
             THEN JAD_KILLED ELSE ONGOING)

\* the step whose tick brought the last Jad's health to 0 reports
\* JAD_KILLED although that Jad's dying flag is not set yet
C5_Witness ==
    /\ lastResp.command = "step" /\ PlayerAlive
    /\ config.jadCount = 2
    /\ lastResp.termination = JAD_KILLED
    /\ \E i \in 0..1 : region.jads[i].hp <= 0 /\ region.jads[i].dying = -1
VisibilityWindow(attack) == IF attack = 3 THEN 1 ELSE JAD_PROJECTILE_DELAY + 1

\* C2: when a living Jad's countdown resets from <= 1 to attackSpeed, the
\* tracker reports the launched style for exactly 4 consecutive ticks
\* (magic, range) or exactly 1 tick (melee) and reports 0 on the tick
\* after: within an episode, a run of non-zero reports of a living Jad
\* that ends has exactly that length.
C2_TrackerWindow ==
    [][\A i \in JadIdx(config) :
         (/\ episodeLength' = episodeLength + 1
          /\ getJad(region', i) # NullRef
          /\ visible[i].ticks > 0
          /\ visible'[i].ticks = 0)
         => visible[i].ticks = VisibilityWindow(visible[i].attack)]_vars

HealerAt(b, a) ==
    IF region.healers[b].has /\ a \in DOMAIN region.healers[b].tuple
    THEN region.healers[b].tuple[a] ELSE NullHealer

\* C7: whenever Jad b is not alive, getHealer(b, a) returns null for every
\* healer index a, whatever that healer's own health and dying flag; it
\* also returns null for a healer never registered or itself dead.
C7_GetHealerAbsent ==
    \A b \in 0..(config.jadCount - 1) : \A a \in (-1)..MaxHealers :
        /\ Defeated(region.jads[b]) => getHealer(region, b, a) = NullRef
        /\ HealerAt(b, a).null => getHealer(region, b, a) = NullRef
        /\ (~HealerAt(b, a).null /\ (HealerAt(b, a).hp <= 0 \/ isDying(HealerAt(b, a))))
             => getHealer(region, b, a) = NullRef

\* a defeated Jad one of whose registered healers still has health and no
\* dying flag
C7_Witness ==
    \E b \in 0..(config.jadCount - 1) : \E a \in 0..(config.healersPerJad - 1) :
        /\ Defeated(region.jads[b])
        /\ ~HealerAt(b, a).null
        /\ HealerAt(b, a).hp > 0 /\ HealerAt(b, a).dying = -1

\* C8: for every configuration and every (b, a) with b < jadCount and
\* a < healersPerJad, once a healer is registered at (b, a), getHealer(b, a)
\* returns that healer for as long as it and its Jad are alive.
C8_EveryHealerReachable ==
    \A b \in 0..(config.jadCount - 1) : \A a \in 0..(config.healersPerJad - 1) :
        (/\ ~HealerAt(b, a).null
         /\ HealerAt(b, a).hp > 0 /\ HealerAt(b, a).dying = -1
         /\ ~Defeated(region.jads[b]))
        => getHealer(region, b, a) = HealerRef(b, a)

Malformed(line) ==
    \/ line.json \in {"invalid", "null"}
    \/ line.json = "value" /\ line.command \notin {"reset", "step", "close"}
    \/ line.json = "value" /\ line.command = "step" /\ line.actionKind = "undefined"

\* C9: every line read other than a close request has produced exactly one
\* line on stdout, and the lines are written in the order the requests
\* were read: the k-th line written answers the k-th line read.
C9_OneResponsePerRequest ==
    /\ \A k \in 1..Len(outbox) : outbox[k] = k
    /\ Len(outbox) = IF lastLine.command = "close" THEN nIn - 1 ELSE nIn

\* reset followed by five steps has produced six lines
C9_Witness ==
    /\ running
    /\ nIn = 6 /\ episodeLength = 5
    /\ outbox = <<1, 2, 3, 4, 5, 6>>
    /\ lastResp.kind = "result"

\* C10: a line that is not valid JSON, or has no recognised command, or is
\* a step without an action, gets one error response and leaves the
\* process serving: the request after it is answered as usual; and no
\* reset or step request ends the process.
C10_MalformedInput ==
    [][nIn' = nIn + 1 =>
         /\ Malformed(lastLine') =>
               /\ outbox' = Append(outbox, nIn')
               /\ lastResp'.kind = "error"
               /\ running'
         /\ lastLine'.command \in {"reset", "step"} => running'
         /\ (Malformed(lastLine) /\ ~Malformed(lastLine') /\ lastLine'.command # "close")
               => lastResp'.kind = "result" /\ lastResp'.command = lastLine'.command]_vars

\* an episode under way, a line of invalid JSON answered with an error, and
\* the process still running
C10_Witness ==
    /\ running
    /\ episodeLength >= 1
    /\ lastLine.json = "invalid"
    /\ lastResp.kind = "error"
    /\ Len(outbox) = nIn

\* C11: every successful step applies the given action to the state as it
\* was before the tick, then advances the world by exactly one tick and the
\* step counter by exactly one, and returns the observation, reward,
\* terminated flag and validity mask computed from the state after the tick.
C11_StepActsThenTicksOnce ==
    [][SameEpisodeStep =>
         /\ lastResp'.kind = "result" /\ lastResp'.command = "step"
         /\ \E p1 \in {executeAction(lastLine'.action, player, region, config)} :
              \E ch \in TickChoices(region, p1, proj, config) :
                \E w \in {tickWorld(region, p1, proj, config, ch)} :
                   region' = w.region /\ player' = w.player /\ proj' = w.proj
         /\ lastResp'.observation =
               buildObservation(player', region', config, startingDoses)
         /\ lastResp'.terminated =
               (checkTermination(player', region', config) # ONGOING)
         /\ lastResp'.reward =
               computeReward(lastResp'.observation,
                             buildObservation(player, region, config, startingDoses),
                             checkTermination(player', region', config),
                             episodeLength', envConfig.rewardFunc).terminal
         /\ lastResp'.valid_action_mask =
               buildValidActionMask(region', config, lastResp'.observation)]_vars

\* the first step of an episode targets Jad 0 and the same step's tick
\* already lands the player's hit, which the returned observation shows
C11_Witness ==
    /\ episodeLength = 1
    /\ lastLine.command = "step" /\ lastLine.action[4] = 1
    /\ player.aggro = JadRef(0)
    /\ region.jads[0].hp < JadMaxHp
    /\ lastResp.observation.jads[0].hp = region.jads[0].hp
    /\ lastResp.observation.player_aggro = 1

\* C12: a reset issued in any state returns reward 0 and terminated = false
\* with the observation of a freshly initialised episode: every Jad alive
\* at full health, no healer present, step counter 0, and no entity,
\* spawn flag or tracker state kept from the episode before.
C12_ResetIsFresh ==
    (lastResp.kind = "result" /\ lastResp.command = "reset") =>
        /\ lastResp.reward = 0 /\ ~lastResp.terminated
        /\ episodeLength = 0
        /\ \E o \in AttackOrders(config.jadCount) : region = initialiseRegion(config, o)
        /\ player = NewPlayer
        /\ \A i \in JadIdx(config) :
              /\ proj[i] = NoProjectile
              /\ region.jads[i].hp = JadMaxHp /\ region.jads[i].dying = -1
              /\ ~region.jads[i].hasProccedHealers
              /\ ~region.healersSpawnedPerJad[i] /\ ~region.healers[i].has
              /\ lastResp.observation.jads[i].alive
              /\ lastResp.observation.jads[i].hp = JadMaxHp
        /\ \A k \in DOMAIN lastResp.observation.healers :
              lastResp.observation.healers[k] = [hp |-> 0, aggro |-> HealerAggro_NOT_PRESENT]
        /\ ~lastResp.observation.healers_spawned
        /\ lastResp.observation.player_aggro = 0
        /\ lastResp.observation = buildObservation(player, region, config, startingDoses)
        /\ attackStates \in {<<>>, initializeAttackStates(region, config)}

\* a reset answered after a step that attacked Jad 0, in a configuration
\* with a healer per Jad
C12_Witness ==
    /\ lastResp.kind = "result" /\ lastResp.command = "reset"
    /\ lastLine.command = "step" /\ lastLine.action[4] = 1
    /\ config.healersPerJad = 1

\* the Jads whose reported attack goes from non-zero to 0 in this step
Closing == { i \in JadIdx(config) : visible[i].attack # 0 /\ visible'[i].attack = 0 }

\* C13: the correct / incorrect prayer reward of a launched attack is
\* granted on exactly one step, the one on which its visibility window
\* closes (the reported attack goes from non-zero to 0): a step's prayer
\* reward is one grant per window closing in it and nothing else, and a
\* visible attack stays the same attack until its window closes.
C13_PrayerRewardOnClose ==
    [][SameEpisodeStep =>
         /\ lastResp'.prayer_reward =
               PRAYER_CORRECT * Cardinality({ i \in Closing :
                    lastResp'.observation.active_prayer = visible[i].attack })
               + PRAYER_WRONG * Cardinality({ i \in Closing :
                    lastResp'.observation.active_prayer # visible[i].attack })
         /\ \A i \in JadIdx(config) :
               (visible[i].attack # 0 /\ visible'[i].attack # 0)
                 => /\ visible'[i].attack = visible[i].attack
                    /\ visible'[i].ticks = visible[i].ticks + 1
                    /\ visible'[i].ticks <= VisibilityWindow(visible[i].attack)]_vars

\* the step on which the window of a magic attack closes, answered with
\* the reward for praying against magic
C13_Witness ==
    /\ lastResp.kind = "result" /\ lastResp.command = "step"
    /\ episodeLength = 5
    /\ lastResp.observation.active_prayer = 1
    /\ lastResp.prayer_reward = PRAYER_CORRECT
    /\ \A i \in JadIdx(config) : visible[i].attack = 0

\* the attack code of a style: magic 1, range 2, melee 3
StyleCode(style) == IF style = "magic" THEN 1 ELSE IF style = "range" THEN 2 ELSE 3

\* C14: the tracker starts an attack window for a Jad on a tick exactly
\* when that Jad's attack countdown was <= 1 at the previous comparison and
\* is > 1 at the current one; it then records the style the Jad shows at
\* that tick as magic / range / melee; on every other tick the window only
\* runs down and no style is recorded.
C14_WindowStartsOnLaunch ==
    [][SameEpisodeStep =>
         \A i \in JadIdx(config) :
            IF getJad(region, i) = NullRef
            THEN attackStates'[i] = attackStates[i]
            ELSE /\ attackStates'[i].prevAttackDelay = region.jads[i].attackDelay
                 /\ IF attackStates[i].prevAttackDelay <= 1 /\ region.jads[i].attackDelay > 1
                    THEN /\ attackStates'[i].attack = StyleCode(region.jads[i].attackStyle)
                         /\ attackStates'[i].ticksRemaining > 0
                    ELSE /\ attackStates'[i].ticksRemaining =
                               Max(0, attackStates[i].ticksRemaining - 1)
                         /\ attackStates'[i].attack \in {0, attackStates[i].attack}]_vars

\* a range attack recorded on the step after the tick that launched it
C14_Witness ==
    \E i \in JadIdx(config) :
        /\ episodeLength >= 2
        /\ getJad(region, i) # NullRef
        /\ region.jads[i].attackStyle = "range"
        /\ attackStates[i].attack = 2
        /\ attackStates[i].prevAttackDelay = getAttackSpeed(config.jadCount)

\* C15: on the step in which a Jad's health first falls below half of its
\* maximum, exactly healersPerJad healers are registered for it, at the
\* healer indices 0..healersPerJad-1, and nothing is registered before;
\* once a Jad has spawned its healers, no step registers a healer for it
\* again, also when it was healed back above half and falls below again.
C15_HealersSpawnOnce ==
    [][SameEpisodeStep =>
         \A b \in JadIdx(config) :
            IF region.jads[b].hasProccedHealers
            THEN /\ region'.jads[b].hasProccedHealers
                 /\ \A a \in TupleDomain(config) :
                      LET h == region.healers[b].tuple[a]
                          h1 == region'.healers[b].tuple[a]
                      IN /\ h1.null = h.null
                         /\ h1.hp <= h.hp
                         /\ h.aggro = "player" => h1.aggro = "player"
                         /\ h.dying # -1 => h1.dying # -1
            ELSE /\ 2 * region.jads[b].hp >= JadMaxHp
                 /\ \A a \in TupleDomain(config) : HealerAt(b, a).null
                 /\ region'.jads[b].hasProccedHealers <=> 2 * region'.jads[b].hp < JadMaxHp
                 /\ region'.jads[b].hasProccedHealers =>
                      \A a \in TupleDomain(config) :
                         IF a < config.healersPerJad
                         THEN /\ region'.healers[b].has
                              /\ [region'.healers[b].tuple[a] EXCEPT !.dying = -1] = NewHealer
                         ELSE region'.healers[b].tuple[a].null]_vars

\* a living Jad that has spawned its healers and was healed back to at least
\* half of its health while the player had turned on one of the healers,
\* with a step left in which the Jad can fall below half again
C15_Witness ==
    \E b \in JadIdx(config) :
        /\ config.healersPerJad >= 2
        /\ episodeLength < RegistrySteps
        /\ region.jads[b].hasProccedHealers
        /\ EngineAlive(region.jads[b])
        /\ 2 * region.jads[b].hp >= JadMaxHp
        /\ \A a \in 0..(config.healersPerJad - 1) : ~HealerAt(b, a).null
        /\ \E a \in 0..(config.healersPerJad - 1) : HealerAt(b, a).aggro = "player"
        /\ \E a \in 0..(config.healersPerJad - 1) : HealerAt(b, a).aggro = "jad"

\* C16: every healer that is spawned is placed on a tile on which no other
\* mob stands at the time of placement.
C16_PlacedOffOtherMobs == spawn.phase # "idle" => ~spawn.onMob

\* C17: the sampling of a spawn position ends after a bounded number of
\* attempts, whatever mobs stand around the Jad.
C17_SamplingBounded == spawn.phase # "idle" => spawn.attempts <= maxAttempts

\* the entity a target value names is alive: a Jad b named by b + 1, or a
\* registered healer (b, a) of a living Jad named by
\* 1 + jadCount + b * healersPerJad + a
TargetPresent(t) ==
    \/ \E b \in JadIdx(config) : t = b + 1 /\ ~Defeated(region.jads[b])
    \/ \E b \in JadIdx(config) : \E a \in 0..(config.healersPerJad - 1) :
          /\ t = 1 + config.jadCount + b * config.healersPerJad + a
          /\ ~Defeated(region.jads[b])
          /\ ~HealerAt(b, a).null
          /\ HealerAt(b, a).hp > 0 /\ HealerAt(b, a).dying = -1

\* C18: a target value that names a defeated Jad, a healer that is not
\* spawned or is dead, a healer whose Jad is defeated, or no entity at all
\* leaves the player as it is, its current target included.
C18_AbsentTargetIsNoOp ==
    \A t \in (-1)..(getTargetHeadSize(config) + 1) :
        ~TargetPresent(t) => executeTarget(t, player, region, config) = player

\* the player holds a target while a target value names a healer that is
\* alive but whose Jad is defeated, and another names the defeated Jad
C18_Witness ==
    \E b \in JadIdx(config) : \E a \in 0..(config.healersPerJad - 1) :
        /\ ~player.aggro.null
        /\ player.aggro # HealerRef(b, a)
        /\ Defeated(region.jads[b])
        /\ ~HealerAt(b, a).null /\ HealerAt(b, a).hp > 0 /\ HealerAt(b, a).dying = -1
        /\ ~TargetPresent(b + 1)
        /\ ~TargetPresent(1 + config.jadCount + b * config.healersPerJad + a)

\* C19: the configuration the environment was built with has an integer
\* jadCount in 1..6 and an integer healersPerJad in 0..5.
C19_ConfigInRange ==
    (running /\ environ = <<>>) =>
        /\ ~config.jadCount.nan /\ config.jadCount.value \in 1..6
        /\ ~config.healersPerJad.nan /\ config.healersPerJad.value \in 0..5

\* C20: a Jad b is encoded as b + 1 and a healer (b, a) as
\* 1 + jadCount + b * healersPerJad + a.  These values are pairwise distinct
\* and lie in 1..(target head size - 1); executing the value of a target
\* the registry reports makes exactly that Jad or healer the player's
\* target, and the observation then shows the same value as player_aggro.
C20_TargetRoundTrip ==
    LET N == config.jadCount
        H == config.healersPerJad
        Targets == { <<b, -1>> : b \in 0..(N - 1) }
                      \cup ((0..(N - 1)) \X (0..(H - 1)))
        Enc(t) == IF t[2] = -1 THEN t[1] + 1 ELSE 1 + N + t[1] * H + t[2]
        Ref(t) == IF t[2] = -1 THEN JadRef(t[1]) ELSE HealerRef(t[1], t[2])
        Reported(t) == IF t[2] = -1 THEN getJad(region, t[1]) # NullRef
                       ELSE getHealer(region, t[1], t[2]) # NullRef
    IN /\ \A t \in Targets : Enc(t) \in 1..(getTargetHeadSize(config) - 1)
       /\ \A t, u \in Targets : Enc(t) = Enc(u) => t = u
       /\ \A t \in Targets :
            Reported(t) =>
               LET p1 == executeTarget(Enc(t), player, region, config) IN
               /\ p1.aggro = Ref(t)
               /\ getPlayerAggroTarget(p1, region, config) = Enc(t)
       /\ (lastResp.command = "step" /\ lastResp.observation.player_aggro > 0) =>
            \E t \in Targets : /\ Enc(t) = lastResp.observation.player_aggro
                                /\ player.aggro = Ref(t)

\* with two Jads of two healers each, the player has targeted the second
\* healer of the second Jad and the step's observation shows it as 6
C20_Witness ==
    /\ config = [jadCount |-> 2, healersPerJad |-> 2]
    /\ getHealer(region, 1, 1) = HealerRef(1, 1)
    /\ player.aggro = HealerRef(1, 1)
    /\ lastResp.command = "step"
    /\ lastResp.observation.player_aggro = 6

\* C21: for every configuration and in every state of an episode, the
\* action space is <<4, 2, 4, 1 + jadCount + jadCount * healersPerJad>>, the
\* four mask heads of a response have exactly these lengths, and the
\* observation holds jadCount Jad entries and jadCount * healersPerJad
\* healer entries, also after Jads and healers have died.
C21_ShapesFollowConfig ==
    LET N == config.jadCount
        H == config.healersPerJad
        dims == <<4, 2, 4, 1 + N + N * H>>
    IN /\ getActionSpaceDims(config) = dims
       /\ lastResp.command \in {"reset", "step"} =>
            /\ DOMAIN lastResp.valid_action_mask = 1..4
            /\ \A h \in 1..4 :
                  DOMAIN lastResp.valid_action_mask[h] = 0..(dims[h] - 1)
            /\ DOMAIN lastResp.observation.jads = 0..(N - 1)
            /\ DOMAIN lastResp.observation.healers = 0..(N * H - 1)

\* a step's response with two Jads of two healers each, one Jad defeated
\* and its healers dead, the healers of the other Jad not spawned
C21_Witness ==
    /\ config = [jadCount |-> 2, healersPerJad |-> 2]
    /\ lastResp.command = "step"
    /\ \E b \in 0..1 :
          /\ Defeated(region.jads[b])
          /\ \A a \in 0..1 : ~HealerAt(b, a).null /\ HealerAt(b, a).dying # -1
          /\ ~Defeated(region.jads[1 - b])
          /\ \A a \in 0..1 : HealerAt(1 - b, a).null

C23_UnregisteredNameFails ==
    rewardCall # <<>> =>
        /\ rewardCall.thrown <=>
              rewardCall.rewardFunc \notin
                 (IF rewardCall.module = "core/reward/reward-functions.ts"
                  THEN {"sparse", "jad1", "jad2", "jad3"}
                  ELSE {"default", "sparse", "multijad"})
        /\ rewardCall.thrown <=> rewardCall.rewardFunc \notin rewardCall.available
        /\ rewardCall.thrown <=> "reward" \notin DOMAIN rewardCall

\* a call that names a function of another module's registry, and throws
C23_Witness ==
    /\ rewardCall # <<>>
    /\ rewardCall.module = "core/rewards.ts"
    /\ rewardCall.rewardFunc = "jad1"
    /\ rewardCall.thrown
    /\ rewardCall.available = {"default", "sparse", "multijad"}

\* C24: with the default reward function, the tag reward of a step is 5.0
\* (50 tenths) for each healer whose observed aggro was JAD before the step
\* and is PLAYER after it, and nothing for any other healer; a healer that
\* stays on the player is paid for once.
C24_TagRewardOnFlip ==
    [][SameEpisodeStep =>
         lastResp'.tag_reward =
            50 * Cardinality(
               { k \in 0..(config.jadCount * config.healersPerJad - 1) :
                   /\ buildHealerStates(region, config).healers[k].aggro = 1
                   /\ lastResp'.observation.healers[k].aggro = 2 })]_vars

\* a step that paid the tag reward for one healer while another healer of
\* the same Jad was still on its Jad
C24_Witness ==
    /\ lastResp.command = "step"
    /\ lastResp.tag_reward = 50
    /\ \E k \in DOMAIN lastResp.observation.healers :
          lastResp.observation.healers[k].aggro = 2
    /\ \E k \in DOMAIN lastResp.observation.healers :
          lastResp.observation.healers[k].aggro = 1

\* C25: applying protection-prayer value p # 0 switches prayer p off when
\* it is active; when it is not active and the player has prayer points it
\* switches p on and every other protection prayer off; when it is not
\* active and the player has no prayer points nothing changes.  Nothing
\* else of the player changes, and at most one protection prayer is active.
C25_ProtectionPrayerToggle ==
    /\ Cardinality(player.prayers \cap OverheadPrayers) <= 1
    /\ \A p \in 1..3 :
         LET name == <<"Protect from Magic", "Protect from Range",
                       "Protect from Melee">>[p]
             q == executeProtectionPrayer(p, player)
         IN /\ [q EXCEPT !.prayers = player.prayers] = player
            /\ q.prayers \ OverheadPrayers = player.prayers \ OverheadPrayers
            /\ Cardinality(q.prayers \cap OverheadPrayers) <= 1
            /\ IF name \in player.prayers
               THEN q.prayers \cap OverheadPrayers = {}
               ELSE IF player.prayer > 0
                    THEN q.prayers \cap OverheadPrayers = {name}
                    ELSE q.prayers = player.prayers

\* the player prays Protect from Melee together with Rigour and has prayer
\* points left, so selecting magic or range replaces melee
C25_Witness ==
    /\ player.prayers = {"Protect from Melee", "Rigour"}
    /\ player.prayer > 0
    /\ executeProtectionPrayer(1, player).prayers = {"Protect from Magic", "Rigour"}
    /\ executeProtectionPrayer(3, player).prayers = {"Rigour"}

C27_StdoutHoldsResponsesOnly ==
    /\ \A k \in 1..Len(outbox) : outbox[k] >= 1 /\ outbox[k] <= nIn
    /\ stderr = lastLine.console

\* a reset and a step were answered, the step logged through console.log,
\* and the line is on stderr
C27_Witness ==
    /\ nIn = 2
    /\ lastLine.command = "step"
    /\ lastLine.console = <<"log">>
    /\ stderr = <<"log">>
    /\ outbox = <<1, 2>>

\* C28: for every jadCount in 1..6, initialiseRegion gives the Jads the
\* initial cooldowns 1 + floor(p * attackSpeed / jadCount) where the values
\* p are a permutation of 0..jadCount-1; the cooldowns are pairwise
\* distinct, each lies in 1..attackSpeed, and exactly one Jad gets 1.
C28_StaggeredOffsets ==
    LET n == shuffle.jadCount
        speed == IF n = 1 THEN SINGLE_JAD_ATTACK_SPEED ELSE MULTI_JAD_ATTACK_SPEED
        p == shuffle.array
        off == shuffle.cooldown
    IN shuffle.phase = "done" =>
         /\ { p[k] : k \in 0..(n - 1) } = 0..(n - 1)
         /\ \A k \in 0..(n - 1) :
               /\ off[k] = 1 + ((p[k] * speed) \div n)
               /\ off[k] >= 1 /\ off[k] <= speed
         /\ \A a, b \in 0..(n - 1) : off[a] = off[b] => a = b
         /\ Cardinality({ k \in 0..(n - 1) : off[k] = 1 }) = 1

\* six Jads, shuffled so that the first Jad attacks last and the last first
C28_Witness ==
    /\ shuffle.phase = "done"
    /\ shuffle.jadCount = 6
    /\ shuffle.array[0] = 5 /\ shuffle.cooldown[0] = 8
    /\ shuffle.array[5] = 0 /\ shuffle.cooldown[5] = 1
    /\ shuffle.array[2] = 3 /\ shuffle.cooldown[2] = 5

\* C29: the healers_spawned flag of every observation is false until the
\* first healer of the episode is registered and true from then until the
\* next reset, also when every healer is dead or the Jads they belong to
\* are dead.
C29_SpawnFlagSticks ==
    lastResp.kind = "result" =>
        (lastResp.observation.healers_spawned
            <=> \E i \in JadIdx(config) : region.healersSpawnedPerJad[i])

\* C30: the starting doses an observation reports are the dose counts taken
\* when the episode was initialised: a reset reports the counts of the new
\* player, and every step of the episode reports the same values as the
\* response before it, however many doses were drunk.
C30_StartingDosesFixed ==
    [][lastResp'.kind = "result" =>
         LET obs == lastResp'.observation
             reported == [bastion |-> obs.starting_bastion_doses,
                          saraBrew |-> obs.starting_sara_brew_doses,
                          superRestore |-> obs.starting_super_restore_doses]
             counted == countPotionDoses(player')
         IN /\ reported = startingDoses'
            /\ SameEpisodeStep => startingDoses' = startingDoses
            /\ lastResp'.command = "reset" =>
                  reported = [bastion |-> counted.bastionDoses,
                              saraBrew |-> counted.saraBrewDoses,
                              superRestore |-> counted.superRestoreDoses]]_vars

\* second step of an episode: doses of two kinds have been drunk and the
\* observation still reports the full starting doses
C30_Witness ==
    /\ lastResp.kind = "result" /\ lastResp.command = "step"
    /\ episodeLength = 2
    /\ lastResp.observation.bastion_doses = PotionDoses - 1
    /\ lastResp.observation.sara_brew_doses = PotionDoses - 1
    /\ lastResp.observation.starting_bastion_doses = PotionDoses
    /\ lastResp.observation.starting_sara_brew_doses = PotionDoses
    /\ lastResp.observation.starting_super_restore_doses = PotionDoses

C32_FailedStepChangesNothing ==
    [][(nIn' = nIn + 1 /\ lastLine'.command = "step" /\ lastResp'.kind = "error") =>
         /\ region' = region /\ player' = player /\ proj' = proj
         /\ episodeLength' = episodeLength
         /\ startingDoses' = startingDoses]_vars

\* C33: when a step ends with the player dead and every Jad defeated, the
\* termination state is PLAYER_DIED, and it is the one terminal state the
\* episode reports: no earlier step of the episode reported another.
C33_PlayerDeathFirst ==
    [][(/\ lastResp'.kind = "result" /\ lastResp'.command = "step"
        /\ ~PlayerAlive'
        /\ \A i \in JadIdx(config) : Defeated(region'.jads[i]))
         => /\ lastResp'.termination = PLAYER_DIED
            /\ (SameEpisodeStep /\ lastResp.kind = "result" /\ lastResp.terminated)
                  => lastResp.termination = PLAYER_DIED]_vars

\* C34: the name used when no reward function is configured, 'default',
\* is registered: a computeReward call with it does not throw and returns
\* a reward.
C34_DefaultIsRegistered ==
    (rewardCall # <<>> /\ rewardCall.rewardFunc = "default") =>
        /\ "default" \in rewardCall.available
        /\ ~rewardCall.thrown
        /\ "reward" \in DOMAIN rewardCall

\* C35: the observation returned by the step whose tick launched a Jad's
\* attack (its countdown went from <= 1 back to the attack speed) already
\* reports that attack, with the launched style, for that Jad.
C35_LaunchSeenAtOnce ==
    [][SameEpisodeStep =>
         \A i \in JadIdx(config) :
            (/\ getJad(region', i) # NullRef
             /\ region.jads[i].attackDelay <= 1
             /\ region'.jads[i].attackDelay > 1)
               => visible'[i].attack = StyleCode(region'.jads[i].attackStyle)]_vars

\* head k of the tuple a applied to the player pl
ApplyHead(k, a, pl) ==
    CASE k = 1 -> executeProtectionPrayer(a[1], pl)
      [] k = 2 -> executeOffensivePrayer(a[2], pl)
      [] k = 3 -> executePotion(a[3], pl)
      [] OTHER -> executeTarget(a[4], pl, region, config)

HeadOrders ==
    { o \in [1..4 -> 1..4] : \A i \in 1..4 : \A j \in 1..4 : i # j => o[i] # o[j] }

ApplyInOrder(o, a, pl) ==
    LET s1 == ApplyHead(o[1], a, pl)
        s2 == ApplyHead(o[2], a, s1)
        s3 == ApplyHead(o[3], a, s2)
    IN ApplyHead(o[4], a, s3)

\* what each head is for: the overhead prayer, Rigour, the potions (doses
\* and the drinks waiting for the tick), the target
HeadComponent(k, pl) ==
    CASE k = 1 -> <<pl.prayers \cap OverheadPrayers>>
      [] k = 2 -> <<"Rigour" \in pl.prayers>>
      [] k = 3 -> <<pl.inventory, pl.queued>>
      [] OTHER -> <<pl.aggro>>

\* the player fields that no head is for
PlayerRest(pl) ==
    [pl EXCEPT !.prayers = {}, !.inventory = <<>>, !.queued = {}, !.aggro = NullRef]

\* C36: in every state of an episode and for every 4-tuple of the action
\* space, executeAction gives (before the tick) the same player as the four
\* heads applied in any other order; each head's component of that player is
\* the one the head alone produces, a head alone leaves the three other
\* components as they were, the fields that belong to no head stay, and
\* [0,0,0,0] leaves the player unchanged.
C36_HeadsIndependent ==
    \A a \in AllHeads(config) :
        LET res == executeAction(a, player, region, config) IN
        /\ \A o \in HeadOrders : ApplyInOrder(o, a, player) = res
        /\ \A k \in 1..4 :
              /\ HeadComponent(k, res) = HeadComponent(k, ApplyHead(k, a, player))
              /\ \A m \in (1..4) \ {k} :
                    HeadComponent(m, ApplyHead(k, a, player)) = HeadComponent(m, player)
        /\ PlayerRest(res) = PlayerRest(player)
        /\ a = NoAction => res = player

\* after a step that switched an overhead prayer on, some tuple with all
\* four heads set changes all four components at once
C36_Witness ==
    /\ episodeLength > 0
    /\ player.prayers \cap OverheadPrayers # {}
    /\ \E a \in AllHeads(config) :
          /\ \A k \in 1..4 : a[k] # 0
          /\ \A k \in 1..4 :
                HeadComponent(k, executeAction(a, player, region, config))
                    # HeadComponent(k, player)

FlatTuples(a) ==
    LET base == config.jadCount + config.jadCount * config.healersPerJad
        paired ==
            (IF a = 0 THEN {NoAction} ELSE {})
            \cup (IF a \in 1..base THEN {<<0, 0, 0, a>>} ELSE {})
            \cup (IF a = base + 1 THEN {<<3, 0, 0, 0>>} ELSE {})
            \cup (IF a = base + 2 THEN {<<2, 0, 0, 0>>} ELSE {})
            \cup (IF a = base + 3 THEN {<<1, 0, 0, 0>>} ELSE {})
            \cup (IF a = base + 4 THEN {<<0, 1, 0, 0>>} ELSE {})
            \cup (IF a \in (base + 5)..(base + 7) THEN {<<0, 0, a - base - 4, 0>>} ELSE {})
    IN { t \in paired : t \in AllHeads(config) }

\* C38: the legacy action space has 1 + jadCount + jadCount * healersPerJad
\* + 7 integers; each of them is paired with exactly one tuple (no-op, one
\* Jad, one healer or one of the seven prayer and potion slots), and the
\* legacy executeAction leaves the player (prayers, doses, target and all
\* the rest) exactly as the multi-head executeAction does for that tuple.
C38_LegacyMatchesHeads ==
    /\ getActionSpaceSize(config) = getActionCount(config)
    /\ \A a \in 0..(getActionSpaceSize(config) - 1) :
          /\ Cardinality(FlatTuples(a)) = 1
          /\ \A t \in FlatTuples(a) :
                executeActionFlat(a, player, region, config)
                    = executeAction(t, player, region, config)
    /\ FlatTuples(getActionSpaceSize(config)) = {}

\* two healers per Jad and one of them is out: a legacy healer action
\* changes the target and the legacy melee slot changes the prayers
C38_Witness ==
    /\ episodeLength > 0
    /\ config.healersPerJad > 1
    /\ \E a \in (config.jadCount + 1)..(config.jadCount * (1 + config.healersPerJad)) :
          executeActionFlat(a, player, region, config).aggro # player.aggro
    /\ executeActionFlat(getActionSpaceSize(config) - 7, player, region, config).prayers
          # player.prayers

\* the 'terminated' messages among the messages sent since the reset
TerminatedSent(sent) == { k \in 1..Len(sent) : sent[k] = "terminated" }

\* C39: while connected, a game tick after which the player is dead or no
\* Jad is left sends 'terminated' if none was sent since the reset; from
\* then on no tick sends anything; at most one 'terminated' is among the
\* messages sent since the reset and nothing follows it.
C39_OneTerminated ==
    [][/\ Cardinality(TerminatedSent(agent'.sent)) <= 1
       /\ \A k \in TerminatedSent(agent'.sent) : k = Len(agent'.sent)
       /\ TerminatedSent(agent.sent) # {} => agent'.sent = agent.sent
       /\ (/\ agent'.ticks = agent.ticks + 1
           /\ agent.connected
           /\ TerminatedSent(agent.sent) = {}) =>
              agent'.sent =
                 Append(agent.sent,
                        IF checkTermination(player', region', config) # ONGOING
                        THEN "terminated" ELSE "observation")]_vars

\* 'terminated' was sent at an earlier tick, the socket is still open and
\* at least one more game tick has passed without any message
C39_Witness ==
    /\ agent.connected
    /\ agent.terminated
    /\ TerminatedSent(agent.sent) # {}
    /\ agent.ticks > Len(agent.sent) - 1
====
